---- MODULE Spec2Model ----
(***************************************************************************)
(* Model of the ProviderSelector of agnivade/stt-challenge                 *)
(* (provider_selector.go, kept in src/README.md lines 201-541).            *)
(*                                                                         *)
(* One connection: the caller (inbound loop, outbound loop, Close), the    *)
(* audioDistributor goroutine with its per-frame delivery goroutines, one  *)
(* transcriptionCollector goroutine per session and the heuristicSelector  *)
(* goroutine.  Channels are sequences with a capacity; a blocking channel  *)
(* operation is an action that is enabled only when it can proceed, and a  *)
(* Go select with several ready cases is a choice between actions.         *)
(* Time is counted in whole seconds.                                       *)
(***************************************************************************)
EXTENDS Integers, Sequences, FiniteSets, TLC

\* ---------------------------------------------------------------- bounds
MaxResults == 3      \* SpecSel: results the sessions produce at most, in all
MaxTime    == 2      \* SpecSel: the clock stops here
LifeResults == 3     \* Spec: results the sessions produce at most, in all
LifeTime   == 2      \* Spec: the clock stops here
MaxFrames  == 1      \* Spec: audio frames the client sends at most
SteadyResults == 6   \* SpecSteady: results the sessions produce at most, in all
SteadyTime == 6      \* SpecSteady: the clock stops here
AudioCap   == 1      \* capacity of audioInput          (100 in the code)
OutCap     == 1      \* capacity of transcriptionOutput (10 in the code)
BufCap     == 1      \* capacity of transcriptionBuffer (100 in the code)
MaxClose   == 2      \* Close calls the caller makes at most (SpecAnyCaller)
ShutResults == 3     \* SpecShutdown: results the sessions produce at most, in all
ShutTime   == 2      \* SpecShutdown: the clock stops here
CallerResults == 2   \* SpecCaller, SpecConn: results the sessions produce at most
CallerFrames == 1    \* SpecCaller, SpecConn: audio frames the client sends before Close
AudioFrames == 3     \* SpecAudio: audio frames the client sends at most
FailResults == 3     \* SpecFailover: results the sessions produce at most, in all
FailTime   == 2      \* SpecFailover: the clock stops here
PruneLen   == 2      \* SpecPrune: entries a history starts with at most
PruneStamp == 2      \* SpecPrune: the entries are stamped 0..PruneStamp
PruneTime  == 6      \* SpecPrune: the clock stops here
SingleResults == 4   \* SpecSingle: results the one session produces at most
SingleTime == 2      \* SpecSingle: the clock stops here
ReaderBad  == 1      \* SpecReader: client messages that fail to parse, at most
CtorLen    == 3      \* SpecCtor: providers given to NewProviderSelector, at most
MaxConns   == 3      \* SpecServer: client connections the server sees at most
DgCap      == 1      \* SpecDeepgram: capacity of resultChannel (10 in the code)
DgCallbacks == 3     \* SpecDeepgram: upstream callbacks at most
DgCalls    == 2      \* SpecDeepgram: calls of each method of the session at most
HandoverResults == 4 \* SpecHandover: results the sessions produce at most, in all
HandoverTime == 2    \* SpecHandover: the clock stops here
HistoryResults == 3  \* SpecHistory: results the sessions produce at most, in all
HistoryTime == 6     \* SpecHistory: the clock stops here
BuiltResults == 3    \* SpecBuilt: results the sessions produce at most, in all
BuiltTime  == 2      \* SpecBuilt: the clock stops here
MaxCapacity == 3     \* SpecBuffer: capacities -1..MaxCapacity are asked for
MaxAdds    == 7      \* SpecBuffer: Add calls on the buffer at most

\* ------------------------------------------------------ program constants
TickPeriod    == 2   \* time.NewTicker(2 * time.Second)
ScoreWindow   == 2   \* time.Now().Add(-2 * time.Second)
HistoryWindow == 5   \* time.Now().Add(-5 * time.Second)

\* providerNames, in construction order; activeProvider starts as the first
providerNames == <<"A", "B">>
Providers == {providerNames[i] : i \in 1..Len(providerNames)}

NoResult == [ProviderName |-> "", n |-> 0, IsFinal |-> FALSE, ReceivedAt |-> 0]

VARIABLES
  now,                  \* the clock (time.Now())
  tickPending,          \* a tick waits in windowTicker.C
  ctxDone,              \* ps.ctx is cancelled
  audioInput,           \* chan []byte: frames queued
  audioClosed,          \* close(ps.audioInput) happened
  transcriptionBuffer,  \* chan TranscriptionResult, collectors -> selector
  bufClosed,
  transcriptionOutput,  \* chan TranscriptionResult, selector -> caller
  outClosed,
  activeProvider,
  providerResults,      \* map[string][]ProviderResultWithSeq
  providerSeqCounters,  \* map[string]uint64
  selPc,                \* heuristicSelector: "select", "forward", "flush", "done"
  selHeld,              \* result of a blocked live forward
  flush,                \* sendMissedMessages in progress: old, new, rest
  colPc,                \* transcriptionCollector per provider: "recv", "send", "done"
  colHeld,
  produced,             \* results the session of a provider has returned
  sessCloseCalls,       \* Session.Close calls per provider
  distPc,               \* audioDistributor: "range", "wait", "done"
  distPending,          \* delivery goroutines still running for the frame
  distFrame,
  delivered,            \* frames each session accepted, in order
  framesSent,           \* SendAudio calls that enqueued
  writerPc,             \* the outbound loop: "run", "done" (end of stream),
                        \* "failed" (a write to the client failed)
  closePc,              \* Close: "idle", "wait", "returned", "panic"
  closeCalls,           \* Close calls started
  closeReturns,         \* Close calls returned
  panicked,             \* a goroutine panicked (close of closed channel, ...)
  sendAudioRet,         \* what the last SendAudio call returned: "none", "nil", "EOF"
  recvRet,              \* what the last ReceiveTranscription call returned:
                        \* "none", "result", "zero" (the zero value, nil), "EOF"
  sessCalls,            \* per session: its SendAudio calls, frame, bytes, outcome
  callerBuf,            \* per frame sent: the bytes now in the buffer the caller
                        \* passed (0: as sent); audioInput holds the buffers themselves
  readerPc,             \* the inbound loop: "run", "done"
  wsClosed,             \* the client transport is closed
  parseFailures,        \* per message that failed to parse: framesSent then
  providersList,        \* the providers given to the latest NewProviderSelector
  constructed,          \* what that call built and returned
  srvState,             \* s.srv: "new", "serving", "failed", "closed"
  startRet,             \* Server.Start: "none", "running", "nil", "err"
  conns,                \* s.conns, the live connections
  transportClosed,      \* the connections whose client transport is closed
  stopPc,               \* Server.Stop: "idle", "locked", "returned"
  stopSeen,             \* s.conns when stopAllConns took s.mu
  toStop,               \* the connections stopAllConns has yet to stop
  dg,                   \* a deepgram.Session, its upstream client and its callers
  mb,                   \* the client's MessageBuffer: messages, head, size,
                        \* capacity; NoBuffer before NewMessageBuffer
  mbCalls,              \* the capacity NewMessageBuffer was asked for and the
                        \* messages passed to Add since, in order
  \* history variables, written only to state the properties
  outLog,               \* every enqueue on transcriptionOutput: result, kind
  seqLog,               \* per provider: the SeqNum values assigned, in order
  lastTick,             \* the last completed scoring tick
  lastHandover          \* the last completed sendMissedMessages call

vars == <<now, tickPending, ctxDone, audioInput, audioClosed, transcriptionBuffer,
          bufClosed, transcriptionOutput, outClosed, activeProvider, providerResults,
          providerSeqCounters, selPc, selHeld, flush, colPc, colHeld, produced,
          sessCloseCalls, distPc, distPending, distFrame, delivered, framesSent,
          writerPc, closePc, closeCalls, closeReturns, panicked,
          sendAudioRet, recvRet, sessCalls, callerBuf, readerPc, wsClosed, parseFailures, providersList, constructed,
          srvState, startRet, conns, transportClosed, stopPc, stopSeen, toStop, dg,
          mb, mbCalls,
          outLog, seqLog, lastTick, lastHandover>>

selVars  == <<activeProvider, providerResults, providerSeqCounters, selPc, selHeld, flush>>
colVars  == <<colPc, colHeld, produced>>
distVars == <<distPc, distPending, distFrame, delivered>>
closeVars == <<closePc, closeCalls, closeReturns, sessCloseCalls>>
chanFlags == <<audioClosed, bufClosed, outClosed>>
histVars == <<outLog, seqLog, lastTick, lastHandover>>
callVars == <<sendAudioRet, recvRet, sessCalls, callerBuf>>
connVars == <<readerPc, wsClosed, parseFailures>>
ctorVars == <<providersList, constructed>>
serverVars == <<srvState, startRet, conns, transportClosed, stopPc, stopSeen, toStop>>
clientVars == <<mb, mbCalls>>
\* the state of the ProviderSelector and of its callers' calls
selectorVars == <<now, tickPending, ctxDone, audioInput, transcriptionBuffer,
                  transcriptionOutput, framesSent, panicked, selVars, colVars,
                  distVars, closeVars, chanFlags, histVars, callVars>>
\* the state of one connection
connectionVars == <<selectorVars, writerPc, connVars, ctorVars, dg>>

\* sendMissedMessages(old, new) in progress or completed: the two histories it
\* read, the entries still to send, the results sent, and whether it returned
\* on ctx.Done()
NoFlush == [old |-> "", new |-> "", oldResults |-> <<>>, newResults |-> <<>>,
            rest |-> <<>>, sent |-> <<>>, cancelled |-> FALSE]
\* a completed scoring tick: the time and histories updateActiveProvider saw,
\* the active provider before and after, the time and histories clearOldResults
\* saw and the histories it left
NoTick == [at |-> -1, results |-> [p \in Providers |-> <<>>], before |-> "",
           after |-> "", pruneAt |-> -1, prePrune |-> [p \in Providers |-> <<>>],
           postPrune |-> [p \in Providers |-> <<>>]]

\* the names providers can have
ProviderNameSet == Providers \cup {"C"}

\* the loop of NewProviderSelector over providersList from index i on: the
\* sessions built (each named by the index of its provider) and the names
\* appended with them
RECURSIVE CreateSessions(_, _, _)
CreateSessions(list, i, acc) ==
  IF i > Len(list) THEN acc
  ELSE IF ~list[i].sessionOk
       THEN CreateSessions(list, i + 1, acc)
       ELSE CreateSessions(list, i + 1,
              [sessions      |-> Append(acc.sessions, i),
               providerNames |-> Append(acc.providerNames, list[i].Name)])

\* NewProviderSelector that appends the name of every provider, also of one
\* whose session was not built
NewProviderSelectorNamesAll(list) ==
  LET built == CreateSessions(list, 1, [sessions |-> <<>>, providerNames |-> <<>>])
      names == [i \in 1..Len(list) |-> list[i].Name]
  IN IF Len(built.sessions) = 0
     THEN [err |-> "no providers available", cancelled |-> TRUE,
           sessions |-> <<>>, providerNames |-> <<>>, activeProvider |-> "",
           started |-> {}]
     ELSE [err |-> "nil", cancelled |-> FALSE,
           sessions |-> built.sessions, providerNames |-> names,
           activeProvider |-> names[1],
           started |-> {<<"audioDistributor", 0>>, <<"heuristicSelector", 0>>}
                         \cup {<<"transcriptionCollector", built.sessions[k]>> :
                                  k \in 1..Len(built.sessions)}]

\* NewProviderSelector that takes the first given provider as the active one
NewProviderSelectorFirstGiven(list) ==
  LET built == CreateSessions(list, 1, [sessions |-> <<>>, providerNames |-> <<>>])
  IN IF Len(built.sessions) = 0
     THEN [err |-> "no providers available", cancelled |-> TRUE,
           sessions |-> <<>>, providerNames |-> <<>>, activeProvider |-> "",
           started |-> {}]
     ELSE [err |-> "nil", cancelled |-> FALSE,
           sessions |-> built.sessions, providerNames |-> built.providerNames,
           activeProvider |-> list[1].Name,
           started |-> {<<"audioDistributor", 0>>, <<"heuristicSelector", 0>>}
                         \cup {<<"transcriptionCollector", built.sessions[k]>> :
                                  k \in 1..Len(built.sessions)}]

\* NewProviderSelector(providersList): the error returned, whether the
\* context was cancelled, the sessions and names kept, the active provider
\* and the goroutines started
NewProviderSelector(list) ==
  LET built == CreateSessions(list, 1, [sessions |-> <<>>, providerNames |-> <<>>])
  IN IF Len(built.sessions) = 0
     THEN [err |-> "no providers available", cancelled |-> TRUE,
           sessions |-> <<>>, providerNames |-> <<>>, activeProvider |-> "",
           started |-> {}]
     ELSE [err |-> "nil", cancelled |-> FALSE,
           sessions |-> built.sessions, providerNames |-> built.providerNames,
           activeProvider |-> built.providerNames[1],
           started |-> {<<"audioDistributor", 0>>, <<"heuristicSelector", 0>>}
                         \cup {<<"transcriptionCollector", built.sessions[k]>> :
                                  k \in 1..Len(built.sessions)}]

\* deepgram.NewSession: the session with its open, empty channels; with it
\* the calls made on it so far and what the last of each returned
NewSession ==
  [ctxDone |-> FALSE, closed |-> FALSE,
   resultChannel |-> <<>>, resultClosed |-> FALSE,
   errorChannel |-> <<>>, errorClosed |-> FALSE,
   closePc |-> "idle", stops |-> 0, writes |-> 0, callbacks |-> 0,
   lastCallback |-> "none",
   closeCalls |-> 0, closeRet |-> "none",
   sendCalls |-> 0, sendRet |-> "none",
   recvCalls |-> 0, recvRet |-> "none",
   panicked |-> FALSE]

\* no MessageBuffer yet: the client has not created its buffer
NoBuffer == [messages |-> <<>>, head |-> 0, size |-> 0, capacity |-> 0]

NoCalls == [requested |-> 0, added |-> <<>>]

\* the messages the server's transcripts are drawn from
Messages == {"a", "b"}

\* NewMessageBuffer(capacity): messages is a slice of capacity empty
\* strings, indexed from 0
NewMessageBuffer(capacity) ==
  LET c == IF capacity <= 0 THEN 1 ELSE capacity
  IN [messages |-> [i \in 0..(c - 1) |-> ""], head |-> 0, size |-> 0,
      capacity |-> c]

\* NewProviderSelector: every session built, goroutines started
Init ==
  /\ now = 0 /\ tickPending = FALSE /\ ctxDone = FALSE
  /\ audioInput = <<>> /\ audioClosed = FALSE
  /\ transcriptionBuffer = <<>> /\ bufClosed = FALSE
  /\ transcriptionOutput = <<>> /\ outClosed = FALSE
  /\ activeProvider = providerNames[1]
  /\ providerResults = [p \in Providers |-> <<>>]
  /\ providerSeqCounters = [p \in Providers |-> 0]
  /\ selPc = "select" /\ selHeld = NoResult /\ flush = NoFlush
  /\ colPc = [p \in Providers |-> "recv"]
  /\ colHeld = [p \in Providers |-> NoResult]
  /\ produced = [p \in Providers |-> 0]
  /\ sessCloseCalls = [p \in Providers |-> 0]
  /\ distPc = "range" /\ distPending = {} /\ distFrame = 0
  /\ delivered = [p \in Providers |-> <<>>]
  /\ framesSent = 0 /\ writerPc = "run"
  /\ closePc = "idle" /\ closeCalls = 0 /\ closeReturns = 0
  /\ panicked = FALSE
  /\ sendAudioRet = "none" /\ recvRet = "none"
  /\ sessCalls = [p \in Providers |-> <<>>]
  /\ callerBuf = <<>>
  /\ readerPc = "run" /\ wsClosed = FALSE /\ parseFailures = <<>>
  /\ providersList = [i \in 1..Len(providerNames) |->
                        [Name |-> providerNames[i], sessionOk |-> TRUE]]
  /\ constructed = NewProviderSelector(providersList)
  /\ srvState = "new" /\ startRet = "none"
  /\ conns = {} /\ transportClosed = {}
  /\ stopPc = "idle" /\ stopSeen = {} /\ toStop = {}
  /\ dg = NewSession
  /\ mb = NoBuffer /\ mbCalls = NoCalls
  /\ outLog = <<>>
  /\ seqLog = [p \in Providers |-> <<>>]
  /\ lastTick = NoTick /\ lastHandover = NoFlush

\* a panic ends the process: nothing runs afterwards
Running == ~panicked

\* ------------------------------------------------------------- the clock
\* windowTicker fires every TickPeriod; its channel holds one tick
Advance(maxTime) ==
  /\ Running /\ now < maxTime
  /\ now' = now + 1
  /\ tickPending' = (tickPending \/ (now' % TickPeriod = 0))
  /\ UNCHANGED <<ctxDone, audioInput, transcriptionBuffer, transcriptionOutput,
                 framesSent, writerPc, panicked>>
  /\ UNCHANGED <<selVars, colVars, distVars, closeVars, chanFlags, histVars>>
  /\ UNCHANGED <<callVars, connVars, ctorVars, serverVars, dg, clientVars>>

\* ------------------------------------------------- heuristicSelector
Last(q) == q[Len(q)]

ZeroTime == -1000    \* time.Time{}: before every timestamp and window start

RECURSIVE KeyOrders(_)
KeyOrders(S) ==
  IF S = {} THEN {<<>>}
  ELSE UNION {{<<x>> \o t : t \in KeyOrders(S \ {x})} : x \in S}

\* the orders in which a range over the providerResults map can visit its keys
MapOrders == KeyOrders(Providers)

\* the inner loop of updateActiveProvider over one provider's results;
\* acc is [time |-> mostRecentTime, best |-> bestProvider]
RECURSIVE ScanResults(_, _, _, _)
ScanResults(providerName, results, windowStart, acc) ==
  IF results = <<>> THEN acc
  ELSE LET r == Head(results)
           acc2 == IF r.Result.ReceivedAt > windowStart /\ r.Result.ReceivedAt > acc.time
                   THEN [time |-> r.Result.ReceivedAt, best |-> providerName]
                   ELSE acc
       IN ScanResults(providerName, Tail(results), windowStart, acc2)

\* the outer loop of updateActiveProvider, visiting the map in the given order
RECURSIVE ScanProviders(_, _, _, _)
ScanProviders(order, results, windowStart, acc) ==
  IF order = <<>> THEN acc
  ELSE ScanProviders(Tail(order), results, windowStart,
                     ScanResults(Head(order), results[Head(order)], windowStart, acc))

\* BestProvider with the window start left at the zero time
BestProviderNoWindow(order, results, t) ==
  ScanProviders(order, results, ZeroTime, [time |-> ZeroTime, best |-> ""]).best

\* bestProvider of updateActiveProvider, "" when none was found
BestProvider(order, results, t) ==
  ScanProviders(order, results, t - ScoreWindow, [time |-> ZeroTime, best |-> ""]).best

\* ClearOld that cuts each history at its first recent entry
ClearOldFromFirstRecent(results, t) ==
  [p \in Providers |->
     LET recent == {i \in 1..Len(results[p]) :
                      results[p][i].Result.ReceivedAt > t - HistoryWindow}
     IN IF recent = {} THEN <<>>
        ELSE SubSeq(results[p], CHOOSE i \in recent : \A j \in recent : i <= j,
                    Len(results[p]))]

\* clearOldResults at time t
ClearOld(results, t) ==
  [p \in Providers |->
     SelectSeq(results[p], LAMBDA e : e.Result.ReceivedAt > t - HistoryWindow)]

\* Missed that skips the first entry above lastOldSeq
MissedSkipsOne(oldResults, newResults) ==
  IF Len(oldResults) = 0 \/ Len(newResults) = 0 THEN <<>>
  ELSE LET lastOldSeq == Last(oldResults).SeqNum
       IN SelectSeq(newResults, LAMBDA e : e.SeqNum > lastOldSeq + 1)

\* Missed that compares with >=
MissedInclusive(oldResults, newResults) ==
  IF Len(oldResults) = 0 \/ Len(newResults) = 0 THEN <<>>
  ELSE LET lastOldSeq == Last(oldResults).SeqNum
       IN SelectSeq(newResults, LAMBDA e : e.SeqNum >= lastOldSeq)

\* Missed that takes 0 as the last sequence number of an empty old history
MissedAllWhenOldEmpty(oldResults, newResults) ==
  IF Len(newResults) = 0 THEN <<>>
  ELSE LET lastOldSeq == IF Len(oldResults) = 0 THEN 0 ELSE Last(oldResults).SeqNum
       IN SelectSeq(newResults, LAMBDA e : e.SeqNum > lastOldSeq)

\* Missed that ranges over newResults from its last entry down
MissedNewestFirst(oldResults, newResults) ==
  IF Len(oldResults) = 0 \/ Len(newResults) = 0 THEN <<>>
  ELSE LET lastOldSeq == Last(oldResults).SeqNum
           sel == SelectSeq(newResults, LAMBDA e : e.SeqNum > lastOldSeq)
       IN [i \in 1..Len(sel) |-> sel[Len(sel) + 1 - i]]

\* the entries sendMissedMessages sends: those of newResults above lastOldSeq
Missed(oldResults, newResults) ==
  IF Len(oldResults) = 0 \/ Len(newResults) = 0 THEN <<>>
  ELSE LET lastOldSeq == Last(oldResults).SeqNum
       IN SelectSeq(newResults, LAMBDA e : e.SeqNum > lastOldSeq)

\* Intake with the counter incremented before the IsFinal test
IntakeCountsInterim(r, active, results, counters) ==
  LET seqNum == counters[r.ProviderName] + 1
      counted == [counters EXCEPT ![r.ProviderName] = seqNum]
  IN IF ~r.IsFinal
     THEN [stored |-> FALSE, counters |-> counted, results |-> results,
           active |-> active, forward |-> FALSE]
     ELSE [stored   |-> TRUE,
           counters |-> counted,
           results  |-> [results EXCEPT ![r.ProviderName] =
                            Append(@, [Result |-> r, SeqNum |-> seqNum])],
           active   |-> active,
           forward  |-> (r.ProviderName = active)]

\* Intake without the IsFinal test
IntakeNoFilter(r, active, results, counters) ==
  LET seqNum == counters[r.ProviderName] + 1
  IN [stored   |-> TRUE,
      counters |-> [counters EXCEPT ![r.ProviderName] = seqNum],
      results  |-> [results EXCEPT ![r.ProviderName] =
                       Append(@, [Result |-> r, SeqNum |-> seqNum])],
      active   |-> active,
      forward  |-> (r.ProviderName = active)]

\* Intake that makes the provider of the result the active provider
IntakeSwitching(r, active, results, counters) ==
  IF ~r.IsFinal
  THEN [stored |-> FALSE, counters |-> counters, results |-> results,
        active |-> active, forward |-> FALSE]
  ELSE LET seqNum == counters[r.ProviderName] + 1
       IN [stored   |-> TRUE,
           counters |-> [counters EXCEPT ![r.ProviderName] = seqNum],
           results  |-> [results EXCEPT ![r.ProviderName] =
                            Append(@, [Result |-> r, SeqNum |-> seqNum])],
           active   |-> r.ProviderName,
           forward  |-> TRUE]

\* Intake that forwards an interim result of the active provider
IntakeForwardsInterim(r, active, results, counters) ==
  IF ~r.IsFinal
  THEN [stored |-> FALSE, counters |-> counters, results |-> results,
        active |-> active, forward |-> (r.ProviderName = active)]
  ELSE LET seqNum == counters[r.ProviderName] + 1
       IN [stored   |-> TRUE,
           counters |-> [counters EXCEPT ![r.ProviderName] = seqNum],
           results  |-> [results EXCEPT ![r.ProviderName] =
                            Append(@, [Result |-> r, SeqNum |-> seqNum])],
           active   |-> active,
           forward  |-> (r.ProviderName = active)]

\* Intake that numbers a result by the length of its provider's history
IntakeSeqFromLength(r, active, results, counters) ==
  IF ~r.IsFinal
  THEN [stored |-> FALSE, counters |-> counters, results |-> results,
        active |-> active, forward |-> FALSE]
  ELSE LET seqNum == Len(results[r.ProviderName]) + 1
       IN [stored   |-> TRUE,
           counters |-> [counters EXCEPT ![r.ProviderName] = seqNum],
           results  |-> [results EXCEPT ![r.ProviderName] =
                            Append(@, [Result |-> r, SeqNum |-> seqNum])],
           active   |-> active,
           forward  |-> (r.ProviderName = active)]

\* what heuristicSelector does with a result r taken from
\* transcriptionBuffer, up to the forward: whether it is stored, the counters
\* and histories, the active provider, and whether r is forwarded
Intake(r, active, results, counters) ==
  IF ~r.IsFinal
  THEN [stored |-> FALSE, counters |-> counters, results |-> results,
        active |-> active, forward |-> FALSE]
  ELSE LET seqNum == counters[r.ProviderName] + 1
       IN [stored   |-> TRUE,
           counters |-> [counters EXCEPT ![r.ProviderName] = seqNum],
           results  |-> [results EXCEPT ![r.ProviderName] =
                            Append(@, [Result |-> r, SeqNum |-> seqNum])],
           active   |-> active,
           forward  |-> (r.ProviderName = active)]

\* case result := <-ps.transcriptionBuffer
SelIntake ==
  /\ Running /\ selPc = "select" /\ transcriptionBuffer # <<>>
  /\ LET r == Head(transcriptionBuffer)
         in == Intake(r, activeProvider, providerResults, providerSeqCounters)
     IN /\ transcriptionBuffer' = Tail(transcriptionBuffer)
        /\ providerSeqCounters' = in.counters
        /\ providerResults' = in.results
        /\ activeProvider' = in.active
        /\ seqLog' = IF in.stored
                     THEN [seqLog EXCEPT ![r.ProviderName] =
                              Append(@, Last(in.results[r.ProviderName]).SeqNum)]
                     ELSE seqLog
        /\ IF in.forward
           THEN selPc' = "forward" /\ selHeld' = r
           ELSE UNCHANGED <<selPc, selHeld>>
  /\ UNCHANGED <<now, tickPending, ctxDone, audioInput, transcriptionOutput,
                 framesSent, writerPc, panicked, flush>>
  /\ UNCHANGED <<colVars, distVars, closeVars, chanFlags, outLog, lastTick, lastHandover>>
  /\ UNCHANGED <<callVars, connVars, ctorVars, serverVars, dg, clientVars>>

\* case ps.transcriptionOutput <- result (the live forward)
SelForwardSend ==
  /\ Running /\ selPc = "forward"
  /\ ~outClosed /\ Len(transcriptionOutput) < OutCap
  /\ transcriptionOutput' = Append(transcriptionOutput, selHeld)
  /\ outLog' = Append(outLog, [Result |-> selHeld, kind |-> "live"])
  /\ selPc' = "select" /\ selHeld' = NoResult
  /\ UNCHANGED <<now, tickPending, ctxDone, audioInput, transcriptionBuffer,
                 framesSent, writerPc, panicked>>
  /\ UNCHANGED <<activeProvider, providerResults, providerSeqCounters, flush>>
  /\ UNCHANGED <<colVars, distVars, closeVars, chanFlags, seqLog,
                 lastTick, lastHandover>>
  /\ UNCHANGED <<callVars, connVars, ctorVars, serverVars, dg, clientVars>>

\* case <-ps.ctx.Done() while forwarding: return
SelForwardCancel ==
  /\ Running /\ selPc = "forward" /\ ctxDone
  /\ selPc' = "done" /\ selHeld' = NoResult
  /\ UNCHANGED <<now, tickPending, ctxDone, audioInput, transcriptionBuffer,
                 transcriptionOutput, framesSent, writerPc, panicked>>
  /\ UNCHANGED <<activeProvider, providerResults, providerSeqCounters, flush>>
  /\ UNCHANGED <<colVars, distVars, closeVars, chanFlags, histVars>>
  /\ UNCHANGED <<callVars, connVars, ctorVars, serverVars, dg, clientVars>>

\* the end of a scoring tick: updateActiveProvider sets the active provider
\* after sendMissedMessages fl returned, then clearOldResults runs
EndTick(tk, fl, newActive) ==
  /\ activeProvider' = newActive
  /\ providerResults' = ClearOld(providerResults, now)
  /\ lastTick' = [tk EXCEPT !.after = newActive, !.pruneAt = now,
                            !.prePrune = providerResults,
                            !.postPrune = ClearOld(providerResults, now)]
  /\ lastHandover' = fl
  /\ flush' = NoFlush
  /\ selPc' = "select"

\* case <-windowTicker.C: updateActiveProvider up to the first send of
\* sendMissedMessages that has to wait, or to the end of clearOldResults
SelTick ==
  /\ Running /\ selPc = "select" /\ tickPending
  /\ tickPending' = FALSE
  /\ \E order \in MapOrders :
       LET bestProvider == BestProvider(order, providerResults, now)
           tk == [NoTick EXCEPT !.at = now, !.results = providerResults,
                                !.before = activeProvider]
       IN IF bestProvider # "" /\ bestProvider # activeProvider
          THEN LET oldResults == providerResults[activeProvider]
                   newResults == providerResults[bestProvider]
                   fl == [old |-> activeProvider, new |-> bestProvider,
                          oldResults |-> oldResults, newResults |-> newResults,
                          rest |-> Missed(oldResults, newResults),
                          sent |-> <<>>, cancelled |-> FALSE]
               IN IF fl.rest = <<>>
                  THEN EndTick(tk, fl, bestProvider)
                  ELSE /\ selPc' = "flush" /\ flush' = fl /\ lastTick' = tk
                       /\ UNCHANGED <<activeProvider, providerResults, lastHandover>>
          ELSE EndTick(tk, lastHandover, activeProvider)
  /\ UNCHANGED <<now, ctxDone, audioInput, transcriptionBuffer, transcriptionOutput,
                 framesSent, writerPc, panicked>>
  /\ UNCHANGED <<providerSeqCounters, selHeld>>
  /\ UNCHANGED <<colVars, distVars, closeVars, chanFlags, outLog, seqLog>>
  /\ UNCHANGED <<callVars, connVars, ctorVars, serverVars, dg, clientVars>>

\* sendMissedMessages: case ps.transcriptionOutput <- resultWithSeq.Result
SelFlushSend ==
  /\ Running /\ selPc = "flush"
  /\ ~outClosed /\ Len(transcriptionOutput) < OutCap
  /\ LET e == Head(flush.rest)
         fl == [flush EXCEPT !.rest = Tail(@), !.sent = Append(@, e)]
     IN /\ transcriptionOutput' = Append(transcriptionOutput, e.Result)
        /\ outLog' = Append(outLog, [Result |-> e.Result, kind |-> "flush"])
        /\ IF fl.rest = <<>>
           THEN EndTick(lastTick, fl, flush.new)
           ELSE /\ flush' = fl
                /\ UNCHANGED <<activeProvider, providerResults, selPc, lastTick,
                               lastHandover>>
  /\ UNCHANGED <<now, tickPending, ctxDone, audioInput, transcriptionBuffer,
                 framesSent, writerPc, panicked>>
  /\ UNCHANGED <<providerSeqCounters, selHeld>>
  /\ UNCHANGED <<colVars, distVars, closeVars, chanFlags, seqLog>>
  /\ UNCHANGED <<callVars, connVars, ctorVars, serverVars, dg, clientVars>>

\* sendMissedMessages(old, new) called on its own, as
\* TestProviderSelector_sendMissedMessages calls it: once, on a selector that
\* has made no handover, with room in transcriptionOutput for everything it
\* sends
SendMissedMessages(old, new) ==
  /\ Running /\ selPc = "select" /\ ~outClosed
  /\ lastHandover = NoFlush
  /\ LET oldResults == providerResults[old]
         newResults == providerResults[new]
         missed == Missed(oldResults, newResults)
     IN /\ Len(transcriptionOutput) + Len(missed) <= OutCap
        /\ transcriptionOutput' =
             transcriptionOutput \o [i \in 1..Len(missed) |-> missed[i].Result]
        /\ outLog' = outLog \o [i \in 1..Len(missed) |->
                                  [Result |-> missed[i].Result, kind |-> "flush"]]
        /\ lastHandover' = [old |-> old, new |-> new,
                            oldResults |-> oldResults, newResults |-> newResults,
                            rest |-> <<>>, sent |-> missed, cancelled |-> FALSE]
  /\ UNCHANGED <<now, tickPending, ctxDone, audioInput, transcriptionBuffer,
                 framesSent, writerPc, panicked>>
  /\ UNCHANGED <<selVars, seqLog, lastTick>>
  /\ UNCHANGED <<colVars, distVars, closeVars, chanFlags>>
  /\ UNCHANGED <<callVars, connVars, ctorVars, serverVars, dg, clientVars>>

\* sendMissedMessages with a plain send, no case <-ps.ctx.Done()
SelFlushNoCancel == FALSE /\ UNCHANGED vars

\* sendMissedMessages: case <-ps.ctx.Done(): return; updateActiveProvider
\* and clearOldResults go on
SelFlushCancel ==
  /\ Running /\ selPc = "flush" /\ ctxDone
  /\ EndTick(lastTick, [flush EXCEPT !.cancelled = TRUE], flush.new)
  /\ UNCHANGED <<now, tickPending, ctxDone, audioInput, transcriptionBuffer,
                 transcriptionOutput, framesSent, writerPc, panicked>>
  /\ UNCHANGED <<providerSeqCounters, selHeld>>
  /\ UNCHANGED <<colVars, distVars, closeVars, chanFlags, outLog, seqLog>>
  /\ UNCHANGED <<callVars, connVars, ctorVars, serverVars, dg, clientVars>>

\* case <-ps.ctx.Done() of the main select: return
SelExit ==
  /\ Running /\ selPc = "select" /\ ctxDone
  /\ selPc' = "done"
  /\ UNCHANGED <<now, tickPending, ctxDone, audioInput, transcriptionBuffer,
                 transcriptionOutput, framesSent, writerPc, panicked>>
  /\ UNCHANGED <<activeProvider, providerResults, providerSeqCounters, selHeld, flush>>
  /\ UNCHANGED <<colVars, distVars, closeVars, chanFlags, histVars>>
  /\ UNCHANGED <<callVars, connVars, ctorVars, serverVars, dg, clientVars>>

\* ------------------------------------------- transcriptionCollector
RECURSIVE SumOver(_, _)
SumOver(f, S) ==
  IF S = {} THEN 0
  ELSE LET x == CHOOSE y \in S : TRUE IN f[x] + SumOver(f, S \ {x})

\* the number of results all sessions have produced
Total(f) == SumOver(f, DOMAIN f)

\* session.ReceiveTranscription() returns a result, final or interim, stamped
\* by the session with the current time
ColRecvResult(p, maxResults, finality) ==
  /\ Running /\ colPc[p] = "recv" /\ Total(produced) < maxResults
  /\ \E fin \in finality :
       colHeld' = [colHeld EXCEPT ![p] =
                     [ProviderName |-> p, n |-> produced[p] + 1,
                      IsFinal |-> fin, ReceivedAt |-> now]]
  /\ produced' = [produced EXCEPT ![p] = @ + 1]
  /\ colPc' = [colPc EXCEPT ![p] = "send"]
  /\ UNCHANGED <<now, tickPending, ctxDone, audioInput, transcriptionBuffer,
                 transcriptionOutput, framesSent, writerPc, panicked>>
  /\ UNCHANGED <<selVars, distVars, closeVars, chanFlags, histVars>>
  /\ UNCHANGED <<callVars, connVars, ctorVars, serverVars, dg, clientVars>>

\* session.ReceiveTranscription() returns io.EOF because the session was
\* closed or its context cancelled: return
ColRecvEOF(p) ==
  /\ Running /\ colPc[p] = "recv"
  /\ ctxDone \/ sessCloseCalls[p] > 0
  /\ colPc' = [colPc EXCEPT ![p] = "done"]
  /\ UNCHANGED <<now, tickPending, ctxDone, audioInput, transcriptionBuffer,
                 transcriptionOutput, framesSent, writerPc, panicked>>
  /\ UNCHANGED <<colHeld, produced>>
  /\ UNCHANGED <<selVars, distVars, closeVars, chanFlags, histVars>>
  /\ UNCHANGED <<callVars, connVars, ctorVars, serverVars, dg, clientVars>>

\* session.ReceiveTranscription() returns an error of the upstream (or io.EOF
\* because the upstream ended) while the session is open: return
ColRecvError(p) ==
  /\ Running /\ colPc[p] = "recv"
  /\ ~ctxDone /\ sessCloseCalls[p] = 0
  /\ colPc' = [colPc EXCEPT ![p] = "done"]
  /\ UNCHANGED <<now, tickPending, ctxDone, audioInput, transcriptionBuffer,
                 transcriptionOutput, framesSent, writerPc, panicked>>
  /\ UNCHANGED <<colHeld, produced>>
  /\ UNCHANGED <<selVars, distVars, closeVars, chanFlags, histVars>>
  /\ UNCHANGED <<callVars, connVars, ctorVars, serverVars, dg, clientVars>>

\* case ps.transcriptionBuffer <- result
ColSend(p) ==
  /\ Running /\ colPc[p] = "send"
  /\ ~bufClosed /\ Len(transcriptionBuffer) < BufCap
  /\ transcriptionBuffer' = Append(transcriptionBuffer, colHeld[p])
  /\ colPc' = [colPc EXCEPT ![p] = "recv"]
  /\ colHeld' = [colHeld EXCEPT ![p] = NoResult]
  /\ UNCHANGED <<now, tickPending, ctxDone, audioInput, transcriptionOutput,
                 framesSent, writerPc, panicked, produced>>
  /\ UNCHANGED <<selVars, distVars, closeVars, chanFlags, histVars>>
  /\ UNCHANGED <<callVars, connVars, ctorVars, serverVars, dg, clientVars>>

\* transcriptionCollector with a plain send, no case <-ps.ctx.Done()
ColCancelNever(p) == FALSE /\ UNCHANGED vars

\* case <-ps.ctx.Done(): return, the held result is dropped
ColCancel(p) ==
  /\ Running /\ colPc[p] = "send" /\ ctxDone
  /\ colPc' = [colPc EXCEPT ![p] = "done"]
  /\ colHeld' = [colHeld EXCEPT ![p] = NoResult]
  /\ UNCHANGED <<now, tickPending, ctxDone, audioInput, transcriptionBuffer,
                 transcriptionOutput, framesSent, writerPc, panicked,
                 produced>>
  /\ UNCHANGED <<selVars, distVars, closeVars, chanFlags, histVars>>
  /\ UNCHANGED <<callVars, connVars, ctorVars, serverVars, dg, clientVars>>

\* ------------------------------------------------- audioDistributor
\* DistRange without the wg.Wait() that ends the round of the frame before
DistRangeNoWait ==
  /\ Running /\ distPc \in {"range", "wait"} /\ audioInput # <<>>
  /\ distFrame' = Head(audioInput)
  /\ audioInput' = Tail(audioInput)
  /\ distPending' = Providers
  /\ distPc' = "wait"
  /\ UNCHANGED <<now, tickPending, ctxDone, transcriptionBuffer, transcriptionOutput,
                 framesSent, writerPc, panicked, delivered>>
  /\ UNCHANGED <<selVars, colVars, closeVars, chanFlags, histVars>>
  /\ UNCHANGED <<callVars, connVars, ctorVars, serverVars, dg, clientVars>>

\* for audioData := range ps.audioInput: one delivery goroutine per session
DistRange ==
  /\ Running /\ distPc = "range" /\ audioInput # <<>>
  /\ distFrame' = Head(audioInput)
  /\ audioInput' = Tail(audioInput)
  /\ distPending' = Providers
  /\ distPc' = "wait"
  /\ UNCHANGED <<now, tickPending, ctxDone, transcriptionBuffer, transcriptionOutput,
                 framesSent, writerPc, panicked, delivered>>
  /\ UNCHANGED <<selVars, colVars, closeVars, chanFlags, histVars>>
  /\ UNCHANGED <<callVars, connVars, ctorVars, serverVars, dg, clientVars>>

\* the range ends when audioInput is closed and drained
DistEnd ==
  /\ Running /\ distPc = "range" /\ audioInput = <<>> /\ audioClosed
  /\ distPc' = "done"
  /\ UNCHANGED <<now, tickPending, ctxDone, audioInput, transcriptionBuffer,
                 transcriptionOutput, framesSent, writerPc, panicked>>
  /\ UNCHANGED <<distPending, distFrame, delivered>>
  /\ UNCHANGED <<selVars, colVars, closeVars, chanFlags, histVars>>
  /\ UNCHANGED <<callVars, connVars, ctorVars, serverVars, dg, clientVars>>

\* Deliver in which an error of s.SendAudio ends audioDistributor
DeliverStopsOnError(p) ==
  /\ Running /\ distPc = "wait" /\ p \in distPending
  /\ \E ok \in BOOLEAN :
       /\ delivered' = IF ok THEN [delivered EXCEPT ![p] = Append(@, distFrame)]
                       ELSE delivered
       /\ sessCalls' = [sessCalls EXCEPT ![p] =
                          Append(@, [frame |-> distFrame,
                                     bytes |-> callerBuf[distFrame], ok |-> ok])]
       /\ distPending' = IF ok THEN distPending \ {p} ELSE {}
       /\ distPc' = IF ~ok THEN "done"
                    ELSE IF distPending' = {} THEN "range" ELSE "wait"
  /\ UNCHANGED <<now, tickPending, ctxDone, audioInput, transcriptionBuffer,
                 transcriptionOutput, framesSent, writerPc, panicked,
                 distFrame>>
  /\ UNCHANGED <<selVars, colVars, closeVars, chanFlags, histVars>>
  /\ UNCHANGED <<sendAudioRet, recvRet, callerBuf, connVars, ctorVars, serverVars, dg, clientVars>>

\* one delivery goroutine: it copies the frame's buffer as the buffer is now;
\* s.SendAudio(audioCopy) returns nil (ok) or an error, io.EOF or another (the
\* two differ in the log line only); wg.Wait() returns with the last of them
Deliver(p) ==
  /\ Running /\ distPc = "wait" /\ p \in distPending
  /\ \E ok \in BOOLEAN :
       /\ delivered' = IF ok THEN [delivered EXCEPT ![p] = Append(@, distFrame)]
                       ELSE delivered
       /\ sessCalls' = [sessCalls EXCEPT ![p] =
                          Append(@, [frame |-> distFrame,
                                     bytes |-> callerBuf[distFrame], ok |-> ok])]
  /\ distPending' = distPending \ {p}
  /\ distPc' = IF distPending' = {} THEN "range" ELSE "wait"
  /\ UNCHANGED <<now, tickPending, ctxDone, audioInput, transcriptionBuffer,
                 transcriptionOutput, framesSent, writerPc, panicked,
                 distFrame>>
  /\ UNCHANGED <<selVars, colVars, closeVars, chanFlags, histVars>>
  /\ UNCHANGED <<sendAudioRet, recvRet, callerBuf, connVars, ctorVars, serverVars, dg, clientVars>>

\* ------------------------------------------------------- the caller
\* SendAudio, called by the inbound loop: case ps.audioInput <- audioData.
\* The inbound loop has ended when Close is called ("Close will be called
\* after ws reader exits")
SendAudio(maxFrames) ==
  /\ Running /\ closeCalls = 0 /\ framesSent < maxFrames
  /\ ~audioClosed /\ Len(audioInput) < AudioCap
  /\ audioInput' = Append(audioInput, framesSent + 1)
  /\ framesSent' = framesSent + 1
  /\ UNCHANGED <<now, tickPending, ctxDone, transcriptionBuffer, transcriptionOutput,
                 writerPc, panicked>>
  /\ UNCHANGED <<selVars, colVars, distVars, closeVars, chanFlags, histVars>>
  /\ sendAudioRet' = "nil" /\ callerBuf' = Append(callerBuf, 0)
  /\ UNCHANGED <<recvRet, sessCalls, connVars, ctorVars, serverVars, dg, clientVars>>

\* the caller writes to the buffer of frame f, which it passed to a SendAudio
\* call that has returned (the channel carries the slice, not a copy)
MutateBuffer(f) ==
  /\ Running /\ f \in 1..Len(callerBuf) /\ callerBuf[f] = 0
  /\ callerBuf' = [callerBuf EXCEPT ![f] = 1]
  /\ UNCHANGED <<now, tickPending, ctxDone, audioInput, transcriptionBuffer,
                 transcriptionOutput, framesSent, writerPc, panicked>>
  /\ UNCHANGED <<selVars, colVars, distVars, closeVars, chanFlags, histVars>>
  /\ UNCHANGED <<sendAudioRet, recvRet, sessCalls, connVars, ctorVars, serverVars, dg, clientVars>>

\* SendAudio called once Close has cancelled ps.ctx.  The select chooses
\* among its ready cases: <-ps.ctx.Done() is ready and returns io.EOF; the
\* send is ready when audioInput is closed (it panics: send on closed channel)
\* or has room (the frame is enqueued and nil returned)
SendAudioLate ==
  /\ Running /\ ctxDone
  /\ \E case \in {"send", "done"} :
       IF case = "done"
       THEN /\ sendAudioRet' = "EOF"
            /\ UNCHANGED <<audioInput, framesSent, callerBuf, panicked>>
       ELSE IF audioClosed
       THEN /\ panicked' = TRUE
            /\ UNCHANGED <<audioInput, framesSent, callerBuf, sendAudioRet>>
       ELSE /\ Len(audioInput) < AudioCap
            /\ audioInput' = Append(audioInput, framesSent + 1)
            /\ framesSent' = framesSent + 1
            /\ callerBuf' = Append(callerBuf, 0)
            /\ sendAudioRet' = "nil"
            /\ UNCHANGED panicked
  /\ UNCHANGED <<now, tickPending, ctxDone, transcriptionBuffer, transcriptionOutput,
                 writerPc>>
  /\ UNCHANGED <<selVars, colVars, distVars, closeVars, chanFlags, histVars>>
  /\ UNCHANGED <<recvRet, sessCalls, connVars, ctorVars, serverVars, dg, clientVars>>

\* ReceiveTranscription, called by the outbound loop:
\* case result := <-ps.transcriptionOutput
Receive ==
  /\ Running /\ writerPc = "run" /\ transcriptionOutput # <<>>
  /\ transcriptionOutput' = Tail(transcriptionOutput)
  /\ UNCHANGED <<now, tickPending, ctxDone, audioInput, transcriptionBuffer,
                 framesSent, writerPc, panicked>>
  /\ UNCHANGED <<selVars, colVars, distVars, closeVars, chanFlags, histVars>>
  /\ recvRet' = "result"
  /\ UNCHANGED <<sendAudioRet, sessCalls, callerBuf, connVars, ctorVars, serverVars, dg, clientVars>>

\* ReceiveEOF that does not wait for the context to be cancelled
ReceiveEOFAnytime ==
  /\ Running /\ writerPc = "run"
  /\ writerPc' = "done" /\ recvRet' = "EOF"
  /\ UNCHANGED <<now, tickPending, ctxDone, audioInput, transcriptionBuffer,
                 transcriptionOutput, framesSent, panicked>>
  /\ UNCHANGED <<selVars, colVars, distVars, closeVars, chanFlags, histVars>>
  /\ UNCHANGED <<sendAudioRet, sessCalls, callerBuf, connVars, ctorVars, serverVars, dg, clientVars>>

\* ReceiveTranscription: case <-ps.ctx.Done(): io.EOF, the outbound loop ends
ReceiveEOF ==
  /\ Running /\ writerPc = "run" /\ ctxDone
  /\ writerPc' = "done"
  /\ UNCHANGED <<now, tickPending, ctxDone, audioInput, transcriptionBuffer,
                 transcriptionOutput, framesSent, panicked>>
  /\ UNCHANGED <<selVars, colVars, distVars, closeVars, chanFlags, histVars>>
  /\ recvRet' = "EOF"
  /\ UNCHANGED <<sendAudioRet, sessCalls, callerBuf, connVars, ctorVars, serverVars, dg, clientVars>>

\* ReceiveTranscription once transcriptionOutput is closed and empty: the
\* receive case is ready and yields the zero TranscriptionResult, returned
\* with a nil error
ReceiveZero ==
  /\ Running /\ writerPc = "run"
  /\ outClosed /\ transcriptionOutput = <<>>
  /\ recvRet' = "zero"
  /\ UNCHANGED <<now, tickPending, ctxDone, audioInput, transcriptionBuffer,
                 transcriptionOutput, framesSent, writerPc, panicked>>
  /\ UNCHANGED <<selVars, colVars, distVars, closeVars, chanFlags, histVars>>
  /\ UNCHANGED <<sendAudioRet, sessCalls, callerBuf, connVars, ctorVars, serverVars, dg, clientVars>>

\* ------------------------------------------------------------ Close
\* CloseBegin that closes only the sessions no SendAudio call of which failed
CloseBeginSkipsFailed(again) ==
  /\ Running
  /\ IF again THEN closePc = "returned" /\ closeCalls < MaxClose
              ELSE closePc = "idle"
  /\ ctxDone' = TRUE
  /\ closeCalls' = closeCalls + 1
  /\ IF audioClosed
     THEN /\ panicked' = TRUE
          /\ closePc' = "panic"
          /\ UNCHANGED <<audioClosed, sessCloseCalls>>
     ELSE /\ audioClosed' = TRUE
          /\ sessCloseCalls' =
               [p \in Providers |->
                  IF \E i \in 1..Len(sessCalls[p]) : ~sessCalls[p][i].ok
                  THEN sessCloseCalls[p] ELSE sessCloseCalls[p] + 1]
          /\ closePc' = "wait"
          /\ UNCHANGED panicked
  /\ UNCHANGED <<now, tickPending, audioInput, transcriptionBuffer,
                 transcriptionOutput, framesSent, writerPc>>
  /\ UNCHANGED <<closeReturns, bufClosed, outClosed>>
  /\ UNCHANGED <<selVars, colVars, distVars, histVars>>
  /\ UNCHANGED <<callVars, connVars, ctorVars, serverVars, dg, clientVars>>

\* Close up to ps.wg.Wait(): ps.cancel(); close(ps.audioInput), which panics
\* when the channel is closed already; session.Close() on every session.
\* No statement of it blocks.  again: the call follows a call that returned.
CloseBegin(again) ==
  /\ Running
  /\ IF again THEN closePc = "returned" /\ closeCalls < MaxClose
              ELSE closePc = "idle"
  /\ ctxDone' = TRUE
  /\ closeCalls' = closeCalls + 1
  /\ IF audioClosed
     THEN /\ panicked' = TRUE
          /\ closePc' = "panic"
          /\ UNCHANGED <<audioClosed, sessCloseCalls>>
     ELSE /\ audioClosed' = TRUE
          /\ sessCloseCalls' = [p \in Providers |-> sessCloseCalls[p] + 1]
          /\ closePc' = "wait"
          /\ UNCHANGED panicked
  /\ UNCHANGED <<now, tickPending, audioInput, transcriptionBuffer,
                 transcriptionOutput, framesSent, writerPc>>
  /\ UNCHANGED <<closeReturns, bufClosed, outClosed>>
  /\ UNCHANGED <<selVars, colVars, distVars, histVars>>
  /\ UNCHANGED <<callVars, connVars, ctorVars, serverVars, dg, clientVars>>

\* WaitGroupZero without the collectors: their wg.Add(1) left out
WaitGroupZeroNoCollectors == distPc = "done" /\ selPc = "done"

\* ps.wg is at zero: every goroutine NewProviderSelector started has returned
WaitGroupZero ==
  /\ distPc = "done" /\ selPc = "done"
  /\ \A p \in Providers : colPc[p] = "done"

\* ps.wg.Wait() returns; close(ps.transcriptionOutput);
\* close(ps.transcriptionBuffer); return nil
CloseFinish ==
  /\ Running /\ closePc = "wait" /\ WaitGroupZero
  /\ IF outClosed \/ bufClosed
     THEN panicked' = TRUE /\ UNCHANGED <<outClosed, bufClosed, closePc, closeReturns>>
     ELSE /\ outClosed' = TRUE /\ bufClosed' = TRUE
          /\ closePc' = "returned" /\ closeReturns' = closeReturns + 1
          /\ UNCHANGED panicked
  /\ UNCHANGED <<now, tickPending, ctxDone, audioInput, transcriptionBuffer,
                 transcriptionOutput, framesSent, writerPc>>
  /\ UNCHANGED <<closeCalls, sessCloseCalls, audioClosed>>
  /\ UNCHANGED <<selVars, colVars, distVars, histVars>>
  /\ UNCHANGED <<callVars, connVars, ctorVars, serverVars, dg, clientVars>>

\* ------------------------------------------ the Connection Manager
\* the inbound loop reads a frame from the client and calls SendAudio
ConnSendAudio == readerPc = "run" /\ SendAudio(CallerFrames)

\* the inbound loop ends: end of stream or a transport error
ReaderExit ==
  /\ Running /\ readerPc = "run"
  /\ readerPc' = "done"
  /\ UNCHANGED <<selectorVars, writerPc, wsClosed, parseFailures, ctorVars, serverVars, dg, clientVars>>

\* reader in which a message that fails to parse ends the loop
ReaderParseBreaks(maxBad) ==
  /\ Running /\ readerPc = "run" /\ Len(parseFailures) < maxBad
  /\ parseFailures' = Append(parseFailures, framesSent)
  /\ readerPc' = "done"
  /\ UNCHANGED <<selectorVars, writerPc, wsClosed, ctorVars, serverVars, dg, clientVars>>

\* reader: json.Unmarshal fails on the client's message: log, continue
ReaderParseFail(maxBad) ==
  /\ Running /\ readerPc = "run" /\ Len(parseFailures) < maxBad
  /\ parseFailures' = Append(parseFailures, framesSent)
  /\ UNCHANGED <<selectorVars, writerPc, readerPc, wsClosed, ctorVars, serverVars, dg, clientVars>>

\* when the inbound loop has ended, the Connection Manager calls Close
ConnClose == readerPc = "done" /\ CloseBegin(FALSE)

\* the outbound loop fails to write the result it received to the client and
\* returns with an error
WriteFail ==
  /\ Running /\ writerPc = "run" /\ recvRet \in {"result", "zero"}
  /\ writerPc' = "failed"
  /\ UNCHANGED <<selectorVars, connVars, ctorVars, serverVars, dg, clientVars>>

\* the client transport is torn down once Close has returned and the
\* outbound loop has ended
ConnTeardown ==
  /\ Running /\ ~wsClosed
  /\ closePc = "returned" /\ writerPc # "run"
  /\ wsClosed' = TRUE
  /\ UNCHANGED <<selectorVars, writerPc, readerPc, parseFailures, ctorVars, serverVars, dg, clientVars>>

\* ------------------------------------------------ the Listener
\* a client connects: NewProviderSelector is called with the server's
\* providers, each of which builds its session or fails to
Construct(maxLen) ==
  /\ Running
  /\ \E k \in 0..maxLen :
       \E list \in [1..k -> [Name : ProviderNameSet, sessionOk : BOOLEAN]] :
         /\ providersList' = list
         /\ constructed' = NewProviderSelector(list)
  /\ UNCHANGED <<selectorVars, writerPc, connVars, serverVars, dg, clientVars>>

\* ------------------------------------------------------ the Server
\* Server.Start is called: its goroutine is about to call ListenAndServe
ServerStart ==
  /\ startRet = "none"
  /\ startRet' = "running"
  /\ UNCHANGED <<srvState, conns, transportClosed, stopPc, stopSeen, toStop>>
  /\ UNCHANGED <<connectionVars, clientVars>>

\* s.srv.ListenAndServe() starts to serve
ListenOk ==
  /\ startRet = "running" /\ srvState = "new"
  /\ srvState' = "serving"
  /\ UNCHANGED <<startRet, conns, transportClosed, stopPc, stopSeen, toStop>>
  /\ UNCHANGED <<connectionVars, clientVars>>

\* s.srv.ListenAndServe() returns an error other than http.ErrServerClosed
ListenFail ==
  /\ startRet = "running" /\ srvState = "new"
  /\ srvState' = "failed"
  /\ UNCHANGED <<startRet, conns, transportClosed, stopPc, stopSeen, toStop>>
  /\ UNCHANGED <<connectionVars, clientVars>>

\* Start returns: ListenAndServe has returned, with http.ErrServerClosed when
\* the server was shut down
StartReturn ==
  /\ startRet = "running" /\ srvState \in {"failed", "closed"}
  /\ startRet' = IF srvState = "closed" THEN "nil" ELSE "err"
  /\ UNCHANGED <<srvState, conns, transportClosed, stopPc, stopSeen, toStop>>
  /\ UNCHANGED <<connectionVars, clientVars>>

\* addConn, under s.mu
AddConn(c) ==
  /\ stopPc # "locked"
  /\ c \notin conns /\ c \notin transportClosed
  /\ conns' = conns \cup {c}
  /\ UNCHANGED <<srvState, startRet, transportClosed, stopPc, stopSeen, toStop>>
  /\ UNCHANGED <<connectionVars, clientVars>>

\* a connection ends by itself; removeConn, under s.mu
RemoveConn(c) ==
  /\ stopPc # "locked"
  /\ c \in conns
  /\ conns' = conns \ {c}
  /\ transportClosed' = transportClosed \cup {c}
  /\ UNCHANGED <<srvState, startRet, stopPc, stopSeen, toStop>>
  /\ UNCHANGED <<connectionVars, clientVars>>

\* StopBegin that stops one connection of s.conns at most
StopBeginOne ==
  /\ stopPc = "idle"
  /\ stopPc' = "locked"
  /\ stopSeen' = conns
  /\ \E some \in SUBSET conns :
       /\ Cardinality(some) <= 1 /\ (conns # {} => some # {})
       /\ toStop' = some
  /\ UNCHANGED <<srvState, startRet, conns, transportClosed>>
  /\ UNCHANGED <<connectionVars, clientVars>>

\* Stop calls stopAllConns, which takes s.mu and ranges over s.conns
StopBegin ==
  /\ stopPc = "idle"
  /\ stopPc' = "locked"
  /\ stopSeen' = conns
  /\ toStop' = conns
  /\ UNCHANGED <<srvState, startRet, conns, transportClosed>>
  /\ UNCHANGED <<connectionVars, clientVars>>

\* wc.Stop() on the next connection of the range, in map order: the client
\* transport of the connection is closed
StopConn(c) ==
  /\ stopPc = "locked" /\ c \in toStop
  /\ toStop' = toStop \ {c}
  /\ transportClosed' = transportClosed \cup {c}
  /\ UNCHANGED <<srvState, startRet, conns, stopPc, stopSeen>>
  /\ UNCHANGED <<connectionVars, clientVars>>

\* stopAllConns returns and releases s.mu; s.srv.Shutdown(ctx); Stop returns
StopShutdown ==
  /\ stopPc = "locked" /\ toStop = {}
  /\ stopPc' = "returned"
  /\ srvState' = IF srvState = "failed" THEN "failed" ELSE "closed"
  /\ UNCHANGED <<startRet, conns, transportClosed, stopSeen, toStop>>
  /\ UNCHANGED <<connectionVars, clientVars>>

\* ------------------------------------------- the deepgram Session
\* CallbackHandler.Message, called by the upstream client: a message with no
\* transcript or an interim one is dropped; a final one is sent to
\* resultChannel unless the channel is full.  A send on a closed channel
\* panics
DgMessage(maxCallbacks) ==
  /\ ~dg.panicked /\ dg.callbacks < maxCallbacks
  /\ \E empty \in BOOLEAN : \E final \in BOOLEAN :
       dg' = IF empty \/ ~final
             THEN [dg EXCEPT !.callbacks = @ + 1, !.lastCallback = "Message"]
             ELSE IF dg.resultClosed
             THEN [dg EXCEPT !.callbacks = @ + 1, !.lastCallback = "Message",
                             !.panicked = TRUE]
             ELSE IF Len(dg.resultChannel) < DgCap
             THEN [dg EXCEPT !.callbacks = @ + 1, !.lastCallback = "Message",
                             !.resultChannel = Append(@, dg.callbacks + 1)]
             ELSE [dg EXCEPT !.callbacks = @ + 1, !.lastCallback = "Message"]
  /\ UNCHANGED <<selectorVars, writerPc, connVars, ctorVars, serverVars, clientVars>>

\* CallbackHandler.Error: the error is sent to errorChannel (capacity 1)
\* unless the channel is full.  A send on a closed channel panics
DgError(maxCallbacks) ==
  /\ ~dg.panicked /\ dg.callbacks < maxCallbacks
  /\ dg' = IF dg.errorClosed
           THEN [dg EXCEPT !.callbacks = @ + 1, !.lastCallback = "Error",
                           !.panicked = TRUE]
           ELSE IF dg.errorChannel = <<>>
           THEN [dg EXCEPT !.callbacks = @ + 1, !.lastCallback = "Error",
                           !.errorChannel = <<"error">>]
           ELSE [dg EXCEPT !.callbacks = @ + 1, !.lastCallback = "Error"]
  /\ UNCHANGED <<selectorVars, writerPc, connVars, ctorVars, serverVars, clientVars>>

\* the context given to NewSession is cancelled
DgCancel ==
  /\ ~dg.panicked /\ ~dg.ctxDone
  /\ dg' = [dg EXCEPT !.ctxDone = TRUE]
  /\ UNCHANGED <<selectorVars, writerPc, connVars, ctorVars, serverVars, clientVars>>

\* DgCloseBegin without the test of s.closed
DgCloseBeginNoCheck(maxCalls) ==
  /\ ~dg.panicked /\ dg.closePc = "idle" /\ dg.closeCalls < maxCalls
  /\ dg' = [dg EXCEPT !.closeCalls = @ + 1, !.closeRet = "none",
                      !.closed = TRUE, !.closePc = "closeResult"]
  /\ UNCHANGED <<selectorVars, writerPc, connVars, ctorVars, serverVars, clientVars>>

\* Session.Close takes s.mu: on a closed session it returns nil, else it
\* sets s.closed
DgCloseBegin(maxCalls) ==
  /\ ~dg.panicked /\ dg.closePc = "idle" /\ dg.closeCalls < maxCalls
  /\ dg' = IF dg.closed
           THEN [dg EXCEPT !.closeCalls = @ + 1, !.closeRet = "nil"]
           ELSE [dg EXCEPT !.closeCalls = @ + 1, !.closeRet = "none",
                           !.closed = TRUE, !.closePc = "closeResult"]
  /\ UNCHANGED <<selectorVars, writerPc, connVars, ctorVars, serverVars, clientVars>>

\* close(s.resultChannel), which panics on a closed channel
DgCloseResult ==
  /\ ~dg.panicked /\ dg.closePc = "closeResult"
  /\ dg' = IF dg.resultClosed THEN [dg EXCEPT !.panicked = TRUE]
           ELSE [dg EXCEPT !.resultClosed = TRUE, !.closePc = "closeError"]
  /\ UNCHANGED <<selectorVars, writerPc, connVars, ctorVars, serverVars, clientVars>>

\* close(s.errorChannel)
DgCloseError ==
  /\ ~dg.panicked /\ dg.closePc = "closeError"
  /\ dg' = IF dg.errorClosed THEN [dg EXCEPT !.panicked = TRUE]
           ELSE [dg EXCEPT !.errorClosed = TRUE, !.closePc = "stop"]
  /\ UNCHANGED <<selectorVars, writerPc, connVars, ctorVars, serverVars, clientVars>>

\* s.client.Stop(); return nil, releasing s.mu
DgCloseStop ==
  /\ ~dg.panicked /\ dg.closePc = "stop"
  /\ dg' = [dg EXCEPT !.stops = @ + 1, !.closePc = "idle", !.closeRet = "nil"]
  /\ UNCHANGED <<selectorVars, writerPc, connVars, ctorVars, serverVars, clientVars>>

\* Session.SendAudio, under s.mu.RLock: io.EOF on a closed session, else what
\* s.client.Write returns
DgSendAudio(maxCalls) ==
  /\ ~dg.panicked /\ dg.closePc = "idle" /\ dg.sendCalls < maxCalls
  /\ \E written \in {"nil", "error"} :
       dg' = IF dg.closed
             THEN [dg EXCEPT !.sendCalls = @ + 1, !.sendRet = "EOF"]
             ELSE [dg EXCEPT !.sendCalls = @ + 1, !.sendRet = written,
                             !.writes = @ + 1]
  /\ UNCHANGED <<selectorVars, writerPc, connVars, ctorVars, serverVars, clientVars>>

\* Session.ReceiveTranscription returns, by one of the cases of its select
\* that are ready: a receive on a closed, empty channel is ready and yields
\* the zero value
DgReceive(maxCalls) ==
  /\ ~dg.panicked /\ dg.recvCalls < maxCalls
  /\ \/ /\ dg.resultChannel # <<>>
        /\ dg' = [dg EXCEPT !.recvCalls = @ + 1, !.recvRet = "result",
                            !.resultChannel = Tail(@)]
     \/ /\ dg.resultChannel = <<>> /\ dg.resultClosed
        /\ dg' = [dg EXCEPT !.recvCalls = @ + 1, !.recvRet = "empty"]
     \/ /\ dg.errorChannel # <<>>
        /\ dg' = [dg EXCEPT !.recvCalls = @ + 1, !.recvRet = "error",
                            !.errorChannel = Tail(@)]
     \/ /\ dg.errorChannel = <<>> /\ dg.errorClosed
        /\ dg' = [dg EXCEPT !.recvCalls = @ + 1, !.recvRet = "empty"]
     \/ /\ dg.ctxDone
        /\ dg' = [dg EXCEPT !.recvCalls = @ + 1, !.recvRet = "EOF"]
  /\ UNCHANGED <<selectorVars, writerPc, connVars, ctorVars, serverVars, clientVars>>

\* ------------------------------------------- the client's MessageBuffer
\* the client creates its buffer
NewBuffer(maxCapacity) ==
  /\ mb = NoBuffer
  /\ \E capacity \in (-1)..maxCapacity :
       /\ mb' = NewMessageBuffer(capacity)
       /\ mbCalls' = [requested |-> capacity, added |-> <<>>]
  /\ UNCHANGED <<connectionVars, serverVars>>

\* Add that moves head before it writes
AddAfterHead(maxAdds) ==
  /\ mb # NoBuffer /\ Len(mbCalls.added) < maxAdds
  /\ \E message \in Messages :
       LET head == (mb.head + 1) % mb.capacity
       IN /\ mb' = [mb EXCEPT !.messages[head] = message,
                              !.head = head,
                              !.size = IF mb.size < mb.capacity
                                       THEN mb.size + 1 ELSE mb.size]
          /\ mbCalls' = [mbCalls EXCEPT !.added = Append(@, message)]
  /\ UNCHANGED <<connectionVars, serverVars>>

\* MessageBuffer.Add(message), under mb.mu
Add(maxAdds) ==
  /\ mb # NoBuffer /\ Len(mbCalls.added) < maxAdds
  /\ \E message \in Messages :
       /\ mb' = [mb EXCEPT !.messages[mb.head] = message,
                           !.head = (mb.head + 1) % mb.capacity,
                           !.size = IF mb.size < mb.capacity
                                    THEN mb.size + 1 ELSE mb.size]
       /\ mbCalls' = [mbCalls EXCEPT !.added = Append(@, message)]
  /\ UNCHANGED <<connectionVars, serverVars>>

\* ------------------------------------------------------ specifications
Selector ==
  \/ SelIntake \/ SelForwardSend \/ SelForwardCancel
  \/ SelTick \/ SelFlushSend \/ SelFlushCancel \/ SelExit

\* finality: what the sessions say of their results (IsFinal)
Collector(p, maxResults, finality) ==
  \/ ColRecvResult(p, maxResults, finality) \/ ColRecvEOF(p) \/ ColSend(p) \/ ColCancel(p)

Distributor == DistRange \/ DistEnd \/ (\E p \in Providers : Deliver(p))

Close == CloseBegin(FALSE) \/ CloseFinish

\* the connection as the caller is meant to drive it: Close is called once,
\* after the inbound loop has ended.  Every result is final here; SpecSel has
\* the interim ones
Next ==
  \/ Advance(LifeTime)
  \/ Selector
  \/ (\E p \in Providers : Collector(p, LifeResults, {TRUE}) \/ ColRecvError(p))
  \/ Distributor
  \/ SendAudio(MaxFrames) \/ Receive \/ ReceiveEOF
  \/ Close

Spec == Init /\ [][Next]_vars

\* a delivery goroutine whose session was cancelled or closed: SendAudio returns
DeliverClosed(p) == ctxDone /\ Deliver(p)

\* What the scheduling guarantees once Close was called.  Every goroutine
\* that can run does run.  A select of which the ctx.Done() case is ready
\* takes that case sooner or later, although other cases may be ready too
\* (the choice among ready cases is random).  A session that was closed or
\* cancelled returns from ReceiveTranscription and from SendAudio.  Nothing
\* is assumed of the caller: no ReceiveTranscription call has to come.
Fairness ==
  /\ WF_vars(CloseFinish)
  /\ SF_vars(SelExit) /\ SF_vars(SelForwardCancel) /\ SF_vars(SelFlushCancel)
  /\ WF_vars(DistRange) /\ WF_vars(DistEnd)
  /\ \A p \in Providers :
       /\ WF_vars(ColRecvEOF(p)) /\ SF_vars(ColCancel(p))
       /\ WF_vars(DeliverClosed(p))

FairSpec == Spec /\ Fairness

\* a caller that calls Close again after it returned
NextAnyCaller == Next \/ CloseBegin(TRUE)

SpecAnyCaller == Init /\ [][NextAnyCaller]_vars

\* a connection on which the client sends no audio while the sessions
\* produce results: the result path and Close
NextSel ==
  \/ Advance(MaxTime)
  \/ Selector
  \/ (\E p \in Providers : Collector(p, MaxResults, BOOLEAN))
  \/ DistEnd
  \/ Receive
  \/ Close

SpecSel == Init /\ [][NextSel]_vars

\* the result path and Close on a connection on which every result is final;
\* the outbound loop may or may not take what is enqueued
NextShutdown ==
  \/ Advance(ShutTime)
  \/ Selector
  \/ (\E p \in Providers : Collector(p, ShutResults, {TRUE}))
  \/ DistEnd
  \/ Receive
  \/ Close

SpecShutdown == Init /\ [][NextShutdown]_vars

FairShutdown == SpecShutdown /\ Fairness

\* a connection that ends before the first scoring tick, with a caller that
\* may call SendAudio after Close and goes on calling ReceiveTranscription
NextCaller ==
  \/ SelIntake \/ SelForwardSend \/ SelForwardCancel \/ SelExit
  \/ (\E p \in Providers : Collector(p, CallerResults, {TRUE}))
  \/ Distributor
  \/ SendAudio(CallerFrames) \/ SendAudioLate
  \/ Receive \/ ReceiveEOF \/ ReceiveZero
  \/ Close

SpecCaller == Init /\ [][NextCaller]_vars

\* the audio path and Close on a connection whose sessions produce no result
NextAudio ==
  \/ SendAudio(AudioFrames)
  \/ Distributor
  \/ SelExit
  \/ (\E p \in Providers : ColRecvEOF(p))
  \/ Close

SpecAudio == Init /\ [][NextAudio]_vars

\* audioDistributor runs when it can, and every delivery goroutine runs and
\* its s.SendAudio call returns
AudioFairness ==
  /\ WF_vars(DistRange)
  /\ \A p \in Providers : WF_vars(Deliver(p))

FairAudio == SpecAudio /\ AudioFairness

\* the audio path with a caller that reuses the buffers it has passed
NextAliasing == NextAudio \/ (\E f \in 1..AudioFrames : MutateBuffer(f))

SpecAliasing == Init /\ [][NextAliasing]_vars

\* clearOldResults on histories given to it, as TestProviderSelector_clearOldResults
\* builds them: the histories hold final results in any order of their stamps
PruneHistories(p) ==
  UNION {{[i \in 1..k |->
             [Result |-> [ProviderName |-> p, n |-> i, IsFinal |-> TRUE,
                          ReceivedAt |-> stamps[i]],
              SeqNum |-> i]] : stamps \in [1..k -> 0..PruneStamp]}
         : k \in 0..PruneLen}

\* a selector with given histories at time PruneStamp, a tick waiting
InitPrune ==
  /\ now = PruneStamp /\ tickPending = TRUE /\ ctxDone = FALSE
  /\ audioInput = <<>> /\ audioClosed = FALSE
  /\ transcriptionBuffer = <<>> /\ bufClosed = FALSE
  /\ transcriptionOutput = <<>> /\ outClosed = FALSE
  /\ activeProvider = providerNames[1]
  /\ providerResults \in {h \in [Providers -> UNION {PruneHistories(p) : p \in Providers}] :
                            \A p \in Providers : h[p] \in PruneHistories(p)}
  /\ providerSeqCounters = [p \in Providers |-> Len(providerResults[p])]
  /\ selPc = "select" /\ selHeld = NoResult /\ flush = NoFlush
  /\ colPc = [p \in Providers |-> "recv"]
  /\ colHeld = [p \in Providers |-> NoResult]
  /\ produced = [p \in Providers |-> Len(providerResults[p])]
  /\ sessCloseCalls = [p \in Providers |-> 0]
  /\ distPc = "range" /\ distPending = {} /\ distFrame = 0
  /\ delivered = [p \in Providers |-> <<>>]
  /\ framesSent = 0 /\ writerPc = "run"
  /\ closePc = "idle" /\ closeCalls = 0 /\ closeReturns = 0
  /\ panicked = FALSE
  /\ sendAudioRet = "none" /\ recvRet = "none"
  /\ sessCalls = [p \in Providers |-> <<>>]
  /\ callerBuf = <<>>
  /\ readerPc = "run" /\ wsClosed = FALSE /\ parseFailures = <<>>
  /\ providersList = [i \in 1..Len(providerNames) |->
                        [Name |-> providerNames[i], sessionOk |-> TRUE]]
  /\ constructed = NewProviderSelector(providersList)
  /\ srvState = "new" /\ startRet = "none"
  /\ conns = {} /\ transportClosed = {}
  /\ stopPc = "idle" /\ stopSeen = {} /\ toStop = {}
  /\ dg = NewSession
  /\ mb = NoBuffer /\ mbCalls = NoCalls
  /\ outLog = <<>>
  /\ seqLog = [p \in Providers |-> [i \in 1..Len(providerResults[p]) |-> i]]
  /\ lastTick = NoTick /\ lastHandover = NoFlush

\* the scoring ticks on those histories
NextPrune ==
  \/ Advance(PruneTime)
  \/ SelTick \/ SelFlushSend
  \/ Receive

SpecPrune == InitPrune /\ [][NextPrune]_vars

\* a connection on which one provider produces: the session of the first
\* provider returns interim and final results, no other session returns
\* anything, nobody calls Close
NextSingle ==
  \/ Advance(SingleTime)
  \/ SelIntake \/ SelForwardSend \/ SelTick
  \/ ColRecvResult(providerNames[1], SingleResults, BOOLEAN)
  \/ ColSend(providerNames[1])
  \/ Receive

SpecSingle == Init /\ [][NextSingle]_vars

\* the collector, the selector and the outbound loop keep running
SingleFairness ==
  /\ WF_vars(ColSend(providerNames[1]))
  /\ WF_vars(SelIntake) /\ WF_vars(SelForwardSend)
  /\ WF_vars(Receive)

FairSingle == SpecSingle /\ SingleFairness

\* sendMissedMessages on histories given to it, called on its own and by the
\* scoring ticks
NextMissed ==
  \/ NextPrune
  \/ (\E old \in Providers : \E new \in Providers \ {old} :
        SendMissedMessages(old, new))

SpecMissed == InitPrune /\ [][NextMissed]_vars

\* a connection that stays open while sessions fail: every result is final,
\* a session's ReceiveTranscription may return an error, nobody calls Close
NextFailover ==
  \/ Advance(FailTime)
  \/ SelIntake \/ SelForwardSend \/ SelTick \/ SelFlushSend
  \/ (\E p \in Providers :
        ColRecvResult(p, FailResults, {TRUE}) \/ ColSend(p) \/ ColRecvError(p))
  \/ Receive

SpecFailover == Init /\ [][NextFailover]_vars

\* every goroutine that can run does run, time passes and the outbound loop
\* keeps calling ReceiveTranscription
FailoverFairness ==
  /\ WF_vars(Advance(FailTime))
  /\ WF_vars(SelIntake) /\ WF_vars(SelForwardSend)
  /\ WF_vars(SelTick) /\ WF_vars(SelFlushSend)
  /\ \A p \in Providers : WF_vars(ColSend(p))
  /\ WF_vars(Receive)

FairFailover == SpecFailover /\ FailoverFairness

\* the result path and Close on a connection whose sessions produce enough
\* final results for a handover and for results after it
NextHandover ==
  \/ Advance(HandoverTime)
  \/ Selector
  \/ (\E p \in Providers : Collector(p, HandoverResults, {TRUE}))
  \/ DistEnd
  \/ Receive
  \/ Close

SpecHandover == Init /\ [][NextHandover]_vars

\* a connection that stays open long enough for clearOldResults to remove
\* entries: every result is final, nobody calls Close
NextHistory ==
  \/ Advance(HistoryTime)
  \/ SelIntake \/ SelForwardSend \/ SelTick \/ SelFlushSend
  \/ (\E p \in Providers : ColRecvResult(p, HistoryResults, {TRUE}) \/ ColSend(p))
  \/ Receive

SpecHistory == Init /\ [][NextHistory]_vars

\* the lists of providers a server can be configured with, in either order,
\* the session of each built or not, one at least built
BuiltLists ==
  {list \in UNION {[1..Len(order) -> [Name : Providers, sessionOk : BOOLEAN]] :
                      order \in MapOrders} :
     /\ \E order \in MapOrders : \A i \in 1..Len(order) : list[i].Name = order[i]
     /\ \E i \in 1..Len(list) : list[i].sessionOk}

\* NewProviderSelector on a list of BuiltLists: a provider whose session was
\* not built has no collector (colPc "none") and no session
InitBuilt ==
  /\ now = 0 /\ tickPending = FALSE /\ ctxDone = FALSE
  /\ audioInput = <<>> /\ audioClosed = FALSE
  /\ transcriptionBuffer = <<>> /\ bufClosed = FALSE
  /\ transcriptionOutput = <<>> /\ outClosed = FALSE
  /\ providersList \in BuiltLists
  /\ constructed = NewProviderSelector(providersList)
  /\ activeProvider = constructed.activeProvider
  /\ providerResults = [p \in Providers |-> <<>>]
  /\ providerSeqCounters = [p \in Providers |-> 0]
  /\ selPc = "select" /\ selHeld = NoResult /\ flush = NoFlush
  /\ colPc = [p \in Providers |->
                IF \E i \in 1..Len(constructed.providerNames) :
                     constructed.providerNames[i] = p
                THEN "recv" ELSE "none"]
  /\ colHeld = [p \in Providers |-> NoResult]
  /\ produced = [p \in Providers |-> 0]
  /\ sessCloseCalls = [p \in Providers |-> 0]
  /\ distPc = "range" /\ distPending = {} /\ distFrame = 0
  /\ delivered = [p \in Providers |-> <<>>]
  /\ framesSent = 0 /\ writerPc = "run"
  /\ closePc = "idle" /\ closeCalls = 0 /\ closeReturns = 0
  /\ panicked = FALSE
  /\ sendAudioRet = "none" /\ recvRet = "none"
  /\ sessCalls = [p \in Providers |-> <<>>]
  /\ callerBuf = <<>>
  /\ readerPc = "run" /\ wsClosed = FALSE /\ parseFailures = <<>>
  /\ srvState = "new" /\ startRet = "none"
  /\ conns = {} /\ transportClosed = {}
  /\ stopPc = "idle" /\ stopSeen = {} /\ toStop = {}
  /\ dg = NewSession
  /\ mb = NoBuffer /\ mbCalls = NoCalls
  /\ outLog = <<>>
  /\ seqLog = [p \in Providers |-> <<>>]
  /\ lastTick = NoTick /\ lastHandover = NoFlush

\* a connection that stays open, on which the built sessions produce final
\* results
NextBuilt ==
  \/ Advance(BuiltTime)
  \/ SelIntake \/ SelForwardSend \/ SelTick \/ SelFlushSend
  \/ (\E p \in Providers : ColRecvResult(p, BuiltResults, {TRUE}) \/ ColSend(p))
  \/ Receive

SpecBuilt == InitBuilt /\ [][NextBuilt]_vars

\* the client creates its MessageBuffer and adds the transcripts it prints
NextBuffer == NewBuffer(MaxCapacity) \/ Add(MaxAdds)

SpecBuffer == Init /\ [][NextBuffer]_vars

\* a connection under its Connection Manager, ending before the first
\* scoring tick
NextConn ==
  \/ SelIntake \/ SelForwardSend \/ SelForwardCancel \/ SelExit
  \/ (\E p \in Providers : Collector(p, CallerResults, {TRUE}))
  \/ Distributor
  \/ ConnSendAudio \/ ReaderExit
  \/ Receive \/ ReceiveEOF \/ ReceiveZero \/ WriteFail
  \/ ConnClose \/ CloseFinish
  \/ ConnTeardown

SpecConn == Init /\ [][NextConn]_vars

\* a connection whose client also sends messages that fail to parse
NextReader ==
  \/ NextConn
  \/ ReaderParseFail(ReaderBad)

SpecReader == Init /\ [][NextReader]_vars

FairReader == SpecReader /\ AudioFairness

\* a connection under its Connection Manager whose sessions may fail in
\* SendAudio and in ReceiveTranscription; the inbound loop ends when the
\* client closes, the transport fails or the server closes the transport
NextSessions ==
  \/ NextConn
  \/ (\E p \in Providers : ColRecvError(p))

SpecSessions == Init /\ [][NextSessions]_vars

\* the server: Start, the connections that come and go, one Stop
NextServer ==
  \/ ServerStart \/ ListenOk \/ ListenFail \/ StartReturn
  \/ (\E c \in 1..MaxConns : AddConn(c) \/ RemoveConn(c) \/ StopConn(c))
  \/ StopBegin \/ StopShutdown

SpecServer == Init /\ [][NextServer]_vars

\* Start's goroutine and Start itself keep running
FairServer == SpecServer /\ WF_vars(StartReturn)

\* a deepgram Session with its upstream client, its callers and its context
NextDeepgram ==
  \/ DgMessage(DgCallbacks) \/ DgError(DgCallbacks)
  \/ DgCancel
  \/ DgCloseBegin(DgCalls) \/ DgCloseResult \/ DgCloseError \/ DgCloseStop
  \/ DgSendAudio(DgCalls)
  \/ DgReceive(DgCalls)

SpecDeepgram == Init /\ [][NextDeepgram]_vars

\* the constructions of selectors, one per client that connects
NextCtor == Construct(CtorLen)

SpecCtor == Init /\ [][NextCtor]_vars

\* nothing is in flight: the collectors wait for their sessions, the selector
\* waits in its select with no tick pending, and the queues are empty
Quiet ==
  /\ \A p \in Providers : colPc[p] = "recv"
  /\ selPc = "select" /\ ~tickPending
  /\ transcriptionBuffer = <<>> /\ transcriptionOutput = <<>>

\* a connection that stays open, on which every result is final, the results
\* arrive one at a time, every tick is handled at once and the outbound loop
\* keeps up
SteadyAdvance == Quiet /\ Advance(SteadyTime)

SteadyRecvResult(p) == Quiet /\ ColRecvResult(p, SteadyResults, {TRUE})

NextSteady ==
  \/ SteadyAdvance
  \/ SelIntake \/ SelForwardSend \/ SelTick \/ SelFlushSend
  \/ (\E p \in Providers : SteadyRecvResult(p) \/ ColSend(p))
  \/ Receive

SpecSteady == Init /\ [][NextSteady]_vars

\* ---------------------------------------------------------- properties
\* a provider all of whose produced results have been taken in by the selector
TakenIn(p) ==
  /\ colPc[p] = "recv" /\ selPc = "select"
  /\ \A i \in 1..Len(transcriptionBuffer) : transcriptionBuffer[i].ProviderName # p

\* C1: for every provider, the SeqNum values assigned to its final results,
\* in intake order, are 1, 2, 3, ... without gap or repeat; results of other
\* providers and interim results consume none of them
C1_SeqNumsGapFree ==
  \A p \in Providers : \A i \in 1..Len(seqLog[p]) : seqLog[p][i] = i

\* both providers were numbered and an interim result of A was taken in
C1_Witness ==
  /\ seqLog["A"] = <<1>> /\ seqLog["B"] = <<1>>
  /\ providerResults["A"][1].Result.n = 2

\* C2: no interim result is ever enqueued on transcriptionOutput, neither by
\* a live forward nor by a handover flush
C2_NoInterimEnqueued ==
  /\ \A i \in 1..Len(outLog) : outLog[i].Result.IsFinal
  /\ \A i \in 1..Len(transcriptionOutput) : transcriptionOutput[i].IsFinal

\* an interim result of the active provider was taken in and dropped, and a
\* final one was forwarded
C2_Witness ==
  /\ Len(outLog) >= 1
  /\ produced["A"] = 2 /\ providerSeqCounters["A"] = 1 /\ TakenIn("A")

\* the results enqueued on transcriptionOutput so far
Enqueued == {outLog[i].Result : i \in 1..Len(outLog)}

\* the highest SeqNum in a history, 0 for an empty one
MaxSeq(h) ==
  IF h = <<>> THEN 0
  ELSE CHOOSE m \in {h[i].SeqNum : i \in 1..Len(h)} :
         \A i \in 1..Len(h) : h[i].SeqNum <= m

IsPrefix(a, b) == Len(a) <= Len(b) /\ a = SubSeq(b, 1, Len(a))

\* a sendMissedMessages call has returned
HandoverDone == lastHandover.new # ""

\* C3 as claimed: at a change of the active provider every final result the
\* new provider had in its history has been enqueued by the end of the handover
C3_NoFinalResultLost ==
  HandoverDone =>
    \A i \in 1..Len(lastHandover.newResults) :
      lastHandover.newResults[i].Result \in Enqueued

\* C3: at a change of the active provider that shutdown does not cut short,
\* every entry of the new provider's history whose SeqNum is above the last
\* SeqNum of the old provider's non-empty history is enqueued during the handover
C3_MissedTailFlushed ==
  (HandoverDone /\ ~lastHandover.cancelled /\ lastHandover.oldResults # <<>>) =>
    \A i \in 1..Len(lastHandover.newResults) :
      LET e == lastHandover.newResults[i] IN
        e.SeqNum > MaxSeq(lastHandover.oldResults) =>
          \E k \in 1..Len(lastHandover.sent) : lastHandover.sent[k] = e

\* a handover from A (one entry) to B (two entries) has flushed b2
C3_Witness ==
  /\ HandoverDone /\ ~lastHandover.cancelled
  /\ Len(lastHandover.oldResults) = 1 /\ Len(lastHandover.newResults) = 2
  /\ Len(lastHandover.sent) = 1
  /\ activeProvider = "B"

\* C4 as claimed: a handover enqueues exactly the entries of the new
\* provider's history above L, L the highest SeqNum of the old provider's
\* history and 0 when that history is empty
C4_FlushAboveLOrAll ==
  HandoverDone =>
    lastHandover.sent =
      SelectSeq(lastHandover.newResults,
                LAMBDA e : e.SeqNum > MaxSeq(lastHandover.oldResults))

\* C4: a handover that shutdown does not cut short enqueues exactly the
\* entries of the new provider's history above the highest SeqNum of the old
\* provider's history, in history order, and nothing when the old provider's
\* history is empty; one that shutdown cuts short has enqueued a prefix of them
C4_FlushAboveLOrNothing ==
  HandoverDone =>
    LET due == IF lastHandover.oldResults = <<>> THEN <<>>
               ELSE SelectSeq(lastHandover.newResults,
                              LAMBDA e : e.SeqNum > MaxSeq(lastHandover.oldResults))
    IN IF lastHandover.cancelled
       THEN IsPrefix(lastHandover.sent, due) /\ lastHandover.sent # due
       ELSE lastHandover.sent = due

\* a handover away from a provider with an empty history, to a provider with
\* entries, has completed
C4_Witness ==
  /\ HandoverDone /\ ~lastHandover.cancelled
  /\ lastHandover.oldResults = <<>> /\ Len(lastHandover.newResults) >= 1
  /\ lastHandover.sent = <<>>

\* the entries of the histories h that lie in the scoring window of time t
InWindow(h, t) ==
  {e \in UNION {{h[p][i] : i \in 1..Len(h[p])} : p \in Providers} :
     e.Result.ReceivedAt > t - ScoreWindow}

\* a scoring tick has completed
TickDone == lastTick.after # ""

\* C6: after a scoring tick the active provider holds an entry with the
\* largest ReceivedAt among the entries of all histories inside the scoring
\* window, and is unchanged when no entry is inside the window
C6_MostRecentInWindowWins ==
  TickDone =>
    LET W == InWindow(lastTick.results, lastTick.at) IN
      /\ activeProvider = lastTick.after
      /\ IF W = {} THEN lastTick.after = lastTick.before
         ELSE \E e \in W :
                /\ e.Result.ProviderName = lastTick.after
                /\ \A f \in W : f.Result.ReceivedAt <= e.Result.ReceivedAt

\* a tick moved the active provider from A, whose only entry lay outside the
\* window, to B
C6_Witness ==
  /\ TickDone /\ lastTick.before = "A" /\ lastTick.after = "B"
  /\ Len(lastTick.results["A"]) = 1
  /\ lastTick.results["A"][1].Result.ReceivedAt <= lastTick.at - ScoreWindow

\* how often result r was enqueued on transcriptionOutput as the given kind
Times(r, kind) ==
  Cardinality({i \in 1..Len(outLog) : outLog[i].Result = r /\ outLog[i].kind = kind})

\* C5: every result is enqueued on transcriptionOutput at most once as a live
\* forward and at most once as a handover flush
C5_AtMostOnceEachWay ==
  \A r \in Enqueued : Times(r, "live") <= 1 /\ Times(r, "flush") <= 1

\* C7: after construction only the heuristicSelector goroutine changes
\* activeProvider, and only in handling a scoring tick (updateActiveProvider,
\* with the sendMissedMessages call inside it)
C7_OnlyScoringTickWritesActive ==
  [][activeProvider' # activeProvider => (SelTick \/ SelFlushSend \/ SelFlushCancel)]_vars

\* a handover with a flush has changed the active provider on a connection
\* that took audio and results and was then closed
C7_Witness ==
  /\ activeProvider = "B" /\ closePc = "returned"
  /\ framesSent = 1 /\ delivered["A"] = <<1>>
  /\ seqLog["B"] = <<1, 2>> /\ lastHandover.sent # <<>>

\* C8: when Close has returned, audioDistributor with its delivery goroutines,
\* heuristicSelector and every transcriptionCollector have returned, and
\* audioInput and transcriptionOutput are closed
C8_CloseLeavesNothingRunning ==
  closeReturns >= 1 =>
    /\ distPc = "done" /\ distPending = {}
    /\ selPc = "done"
    /\ \A p \in Providers : colPc[p] = "done"
    /\ audioClosed /\ outClosed

\* Close has returned on a connection that took audio and results
C8_Witness ==
  /\ closeReturns = 1 /\ closePc = "returned"
  /\ framesSent = 1 /\ Total(produced) = LifeResults

C10_CloseIdempotent ==
  closeCalls >= 2 =>
    /\ ~panicked
    /\ closePc \in {"wait", "returned"}
    /\ \A p \in Providers : sessCloseCalls[p] <= 1

\* C11 as claimed: a SendAudio call made after Close has cancelled the context
\* returns io.EOF and leaves audioInput as it was, whether audioInput has room
\* or not and whether Close is still waiting or has returned
C11_LateSendAudioReturnsEOF ==
  [][SendAudioLate => (sendAudioRet' = "EOF" /\ audioInput' = audioInput /\ ~panicked')]_vars

\* C12 as claimed: ReceiveTranscription returns io.EOF only when
\* transcriptionOutput holds no result: what is queued at Close is returned
\* first, in queue order
C12_EOFOnlyWhenDrained ==
  [][ReceiveEOF => transcriptionOutput = <<>>]_vars

\* C13 as claimed: once Close has returned and transcriptionOutput holds no
\* result, a ReceiveTranscription call returns io.EOF, never a result with a
\* nil error
C13_EOFAfterClose ==
  [][(closePc = "returned" /\ transcriptionOutput = <<>> /\ recvRet' # recvRet)
       => recvRet' = "EOF"]_vars

Frames(p) == [i \in 1..Len(sessCalls[p]) |-> sessCalls[p][i].frame]

\* audioDistributor is between two frames
BetweenFrames == distPc \in {"range", "done"}

\* C15: every session's SendAudio is called with the frames 1, 2, 3, ... in
\* the order SendAudio accepted them, none skipped, repeated or reordered:
\* between two frames every session has been called with every frame taken
\* from audioInput
C15_FramesInOrder ==
  \A p \in Providers :
    /\ \A i \in 1..Len(sessCalls[p]) : sessCalls[p][i].frame = i
    /\ BetweenFrames => Len(sessCalls[p]) = framesSent - Len(audioInput)

\* both sessions were called with three frames; A's call for the first frame
\* failed
C15_Witness ==
  /\ Frames("A") = <<1, 2, 3>> /\ Frames("B") = <<1, 2, 3>>
  /\ ~sessCalls["A"][1].ok /\ sessCalls["B"][2].ok

\* C16 as claimed: the bytes a session receives for a frame are the bytes the
\* caller passed to SendAudio, whatever is written to the caller's buffer
\* after SendAudio returned
C16_CopyIsolation ==
  \A p \in Providers : \A i \in 1..Len(sessCalls[p]) : sessCalls[p][i].bytes = 0

\* some SendAudio call of a session has returned an error
SomeCallFailed ==
  \E p \in Providers : \E i \in 1..Len(sessCalls[p]) : ~sessCalls[p][i].ok

\* C17: an error of one session's SendAudio does not end audioDistributor nor
\* the connection: only Close cancels the context, audioDistributor returns
\* only when audioInput is closed and drained, and every frame accepted,
\* before or after the error, is eventually handed to every session
C17_DistributorSurvivesError ==
  /\ [](ctxDone => closeCalls > 0)
  /\ [](distPc = "done" => (audioClosed /\ audioInput = <<>>))
  /\ \A f \in 1..AudioFrames :
       (SomeCallFailed /\ framesSent >= f)
          ~> (\A q \in Providers : Len(sessCalls[q]) >= f)

\* A's SendAudio failed for the first frame; B got that frame and both got
\* the second
C17_Witness ==
  /\ Len(sessCalls["A"]) >= 2 /\ Len(sessCalls["B"]) >= 2
  /\ ~sessCalls["A"][1].ok /\ sessCalls["B"][1].ok
  /\ closeCalls = 0

\* C18 as claimed: once a SendAudio call of a session has failed,
\* audioDistributor makes no further SendAudio call on that session
C18_NoFrameAfterFailure ==
  \A p \in Providers : \A i \in 1..Len(sessCalls[p]) :
    ~sessCalls[p][i].ok => i = Len(sessCalls[p])

\* C19 as claimed: when the ReceiveTranscription of provider f has returned an
\* error and provider q then returns a final result, the connection is open
\* and that result eventually is enqueued on transcriptionOutput, whichever of
\* the two is the active provider
C19_LaterResultsReachQueue ==
  /\ [](ctxDone => closeCalls > 0)
  /\ \A f \in Providers : \A q \in Providers \ {f} : \A n \in 1..FailResults :
       (colPc[f] = "done" /\ colPc[q] = "send" /\ colHeld[q].n = n)
          ~> (\E i \in 1..Len(outLog) :
                outLog[i].Result.ProviderName = q /\ outLog[i].Result.n = n)

\* the indexes of the entries of history s received within the last
\* HistoryWindow before t
Recent(s, t) == {i \in 1..Len(s) : s[i].Result.ReceivedAt > t - HistoryWindow}

\* post is pre restricted to its recent entries, in the order of pre
IsRestriction(post, pre, t) ==
  /\ Len(post) = Cardinality(Recent(pre, t))
  /\ \A i \in Recent(pre, t) :
       post[Cardinality({j \in Recent(pre, t) : j <= i})] = pre[i]

\* C20: the prune step of a scoring tick at time now leaves each provider
\* with its history restricted to the entries received within the last
\* HistoryWindow seconds, in their order, wherever the old entries sat; a
\* history that loses every entry is the empty history
C20_PruneKeepsRecent ==
  [][(lastTick' # lastTick /\ selPc' = "select")
       => \A p \in Providers :
            IsRestriction(providerResults'[p], providerResults[p], now)]_vars

\* a prune removed an old entry that sat behind a recent one, kept the recent
\* one, and emptied the history of the other provider
C20_Witness ==
  /\ lastTick.pruneAt >= 0
  /\ \E p \in Providers : \E q \in Providers \ {p} :
       /\ Len(lastTick.prePrune[p]) = 2
       /\ Recent(lastTick.prePrune[p], lastTick.pruneAt) = {1}
       /\ providerResults[p] = <<lastTick.prePrune[p][1]>>
       /\ lastTick.prePrune[q] # <<>>
       /\ providerResults[q] = <<>>

\* the results the outbound loop has taken from transcriptionOutput
Received ==
  [i \in 1..(Len(outLog) - Len(transcriptionOutput)) |-> outLog[i].Result]

\* C21: with one producing provider and the connection open, what was
\* enqueued for the client is the final results of that provider, each once,
\* in the order produced, the last one possibly still held by the selector;
\* and every final result the session returns is eventually received
C21_SingleProviderExactlyOnce ==
  /\ [](LET hist == providerResults[providerNames[1]]
        IN /\ Len(outLog) = IF selPc = "forward" THEN Len(hist) - 1 ELSE Len(hist)
           /\ \A i \in 1..Len(outLog) :
                /\ outLog[i].Result = hist[i].Result
                /\ outLog[i].Result.IsFinal
                /\ outLog[i].Result.ProviderName = providerNames[1]
                /\ \A j \in 1..(i - 1) : outLog[j].Result.n < outLog[i].Result.n)
  /\ \A n \in 1..SingleResults :
       (colPc[providerNames[1]] = "send" /\ colHeld[providerNames[1]].IsFinal
          /\ colHeld[providerNames[1]].n = n)
         ~> (\E i \in 1..Len(Received) : Received[i].n = n)

\* the client has received two final results that an interim result was
\* produced between
C21_Witness ==
  /\ Len(Received) = 2
  /\ Received[2].n > Received[1].n + 1
  /\ produced[providerNames[1]] = SingleResults

\* C22: a client message that fails to parse causes no SendAudio call and
\* nothing for the client, leaves the inbound loop running and the connection
\* open; a frame the client sends afterwards is delivered to every session
C22_ParseFailureDropped ==
  /\ [][parseFailures' # parseFailures =>
          /\ UNCHANGED <<audioInput, framesSent, callerBuf, sendAudioRet>>
          /\ UNCHANGED <<transcriptionOutput, outLog, recvRet>>
          /\ readerPc' = "run" /\ writerPc' = writerPc
          /\ UNCHANGED <<closeCalls, ctxDone, wsClosed>>]_vars
  /\ \A f \in 1..CallerFrames :
       (parseFailures # <<>> /\ parseFailures[1] < f /\ framesSent >= f)
          ~> (\A q \in Providers : Len(sessCalls[q]) >= f)

\* a message failed to parse before the first frame was sent, and that frame
\* has reached both sessions
C22_Witness ==
  /\ parseFailures = <<0>>
  /\ \A q \in Providers : Len(sessCalls[q]) = 1 /\ sessCalls[q][1].frame = 1

\* the indexes of the providers of the latest construction whose session was
\* built
Built == {i \in 1..Len(providersList) : providersList[i].sessionOk}

\* C23: construction succeeds exactly when a session was built; the sessions
\* kept are those built, in the order given, each with the name of its own
\* provider; when none was built the error is 'no providers available' and
\* no goroutine was started
C23_ConstructionKeepsBuiltSessions ==
  /\ (constructed.err = "nil") <=> (Built # {})
  /\ Len(constructed.sessions) = Cardinality(Built)
  /\ Len(constructed.providerNames) = Cardinality(Built)
  /\ \A i \in Built :
       LET k == Cardinality({j \in Built : j <= i})
       IN /\ constructed.sessions[k] = i
          /\ constructed.providerNames[k] = providersList[i].Name
  /\ Built = {} => (constructed.err = "no providers available"
                      /\ constructed.started = {})
  /\ Built # {} => constructed.started =
                      {<<"audioDistributor", 0>>, <<"heuristicSelector", 0>>}
                        \cup {<<"transcriptionCollector", i>> : i \in Built}

\* of three providers the first and the last failed to build a session
C23_Witness ==
  /\ Len(providersList) = 3 /\ Built = {2}
  /\ constructed.err = "nil" /\ constructed.sessions = <<2>>

\* C24: after a successful construction the active provider is the first
\* provider, in the order given, whose session was built
C24_FirstBuiltIsActive ==
  constructed.err = "nil" =>
    \E i \in Built : /\ \A j \in Built : i <= j
                      /\ constructed.activeProvider = providersList[i].Name

\* the first provider given failed, the second, of another name, did not
C24_Witness ==
  /\ constructed.err = "nil"
  /\ Len(providersList) >= 2 /\ 1 \notin Built /\ 2 \in Built
  /\ providersList[1].Name # providersList[2].Name
  /\ constructed.activeProvider = providersList[2].Name

\* C25: no session is closed twice, every session has been closed once when
\* Close was called and when the connection has ended, also a session whose
\* SendAudio or ReceiveTranscription failed before
C25_SessionsClosedOnce ==
  \A p \in Providers :
    /\ sessCloseCalls[p] <= 1
    /\ closeCalls > 0 => sessCloseCalls[p] = 1
    /\ wsClosed => sessCloseCalls[p] = 1

\* the connection has ended; a SendAudio call of a session had failed
C25_Witness ==
  /\ wsClosed /\ SomeCallFailed
  /\ \A p \in Providers : sessCloseCalls[p] = 1

\* C26: when Stop has returned, every connection that was in the
\* live-connection set when stopAllConns looked at it has its client transport
\* closed; a Start that was serving, or had yet to serve, then returns nil
C26_StopClosesLiveConnections ==
  /\ [](stopPc = "returned" => stopSeen \subseteq transportClosed)
  /\ [](startRet = "err" => srvState = "failed")
  /\ (stopPc = "returned" /\ startRet = "running" /\ srvState # "failed")
        ~> (startRet = "nil")

\* Stop found two live connections and has returned, and Start returned nil
C26_Witness ==
  /\ stopPc = "returned" /\ Cardinality(stopSeen) = 2
  /\ stopSeen \subseteq transportClosed
  /\ startRet = "nil"

\* C27 as claimed: a ReceiveTranscription call that returns after Close has
\* returned on the session returns the end-of-stream marker
C27_ReceiveAfterCloseIsEOF ==
  [][(dg.stops > 0 /\ dg'.recvCalls > dg.recvCalls) => dg'.recvRet = "EOF"]_vars

\* C28 as claimed: no callback of the upstream client sends to resultChannel
\* or errorChannel once the channel is closed
C28_NoDeliveryToClosedQueue == ~dg.panicked

\* C29: Close on a closed session returns nil, does not stop the upstream
\* client again and does not close the channels again; SendAudio on a closed
\* session returns io.EOF without a Write on the upstream client
C29_SessionCloseIdempotent ==
  /\ [][(dg.closed /\ dg'.closeCalls > dg.closeCalls) =>
          /\ dg'.closeRet = "nil" /\ dg'.closePc = "idle"
          /\ dg'.stops = dg.stops /\ ~dg'.panicked
          /\ dg'.resultClosed = dg.resultClosed
          /\ dg'.errorClosed = dg.errorClosed]_vars
  /\ [](dg.stops <= 1)
  /\ [][(dg.closed /\ dg'.sendCalls > dg.sendCalls) =>
          (dg'.sendRet = "EOF" /\ dg'.writes = dg.writes)]_vars

\* Close was called twice and has returned nil both times, and a SendAudio
\* that followed returned io.EOF
C29_Witness ==
  /\ dg.closeCalls = 2 /\ dg.closePc = "idle" /\ dg.closeRet = "nil"
  /\ dg.stops = 1
  /\ dg.sendCalls > 0 /\ dg.sendRet = "EOF" /\ dg.writes = 0

\* for a call h of sendMissedMessages: the old history is empty, or the new
\* one is, or no sequence number of the new one is above the last of the old
NothingMissed(h) ==
  \/ Len(h.oldResults) = 0
  \/ Len(h.newResults) = 0
  \/ \A i \in 1..Len(h.newResults) :
       h.newResults[i].SeqNum <= h.oldResults[Len(h.oldResults)].SeqNum

\* C30: sendMissedMessages enqueues nothing on transcriptionOutput when the
\* old provider has no history, when the new provider has none, and when
\* every sequence number of the new history is at most the last of the old
C30_NothingMissedNothingSent ==
  /\ [](NothingMissed(lastHandover) => lastHandover.sent = <<>>)
  /\ [](NothingMissed(flush) => (flush.sent = <<>> /\ flush.rest = <<>>))
  /\ [][(lastHandover' # lastHandover /\ NothingMissed(lastHandover')
          /\ flush = NoFlush)
         => (outLog' = outLog /\ transcriptionOutput' = transcriptionOutput)]_vars
  /\ [][(Len(outLog') > Len(outLog) /\ outLog'[Len(outLog')].kind = "flush")
         => ~NothingMissed(IF flush = NoFlush THEN lastHandover' ELSE flush)]_vars

\* sendMissedMessages has run on two histories of two entries each and has
\* sent nothing
C30_Witness ==
  /\ lastHandover.new # "" /\ ~lastHandover.cancelled
  /\ Len(lastHandover.oldResults) = 2 /\ Len(lastHandover.newResults) = 2
  /\ lastHandover.sent = <<>> /\ outLog = <<>>

\* the highest production index among the results of a history
MaxN(h) ==
  IF h = <<>> THEN 0
  ELSE CHOOSE m \in {h[i].Result.n : i \in 1..Len(h)} :
         \A i \in 1..Len(h) : h[i].Result.n <= m

\* the entries the last handover flushed stand in outLog as one block, in
\* increasing SeqNum order; every live forward of the old provider stands
\* before the block and every result the new provider delivered after the
\* handover stands after it
FlushIsOneBlock ==
  (HandoverDone /\ lastHandover.sent # <<>>) =>
    LET sent == lastHandover.sent
    IN /\ \A j \in 1..(Len(sent) - 1) : sent[j].SeqNum < sent[j + 1].SeqNum
       /\ \E k \in 0..(Len(outLog) - Len(sent)) :
            /\ \A j \in 1..Len(sent) :
                 outLog[k + j] = [Result |-> sent[j].Result, kind |-> "flush"]
            /\ \A i \in 1..Len(outLog) :
                 /\ (outLog[i].kind = "live"
                       /\ outLog[i].Result.ProviderName = lastHandover.old)
                      => i <= k
                 /\ (outLog[i].Result.ProviderName = lastHandover.new
                       /\ outLog[i].Result.n > MaxN(lastHandover.newResults))
                      => i > k + Len(sent)

\* while sendMissedMessages runs the selector takes no result from
\* transcriptionBuffer, assigns no SeqNum and handles no other tick, and what
\* is enqueued is the next entry to flush
FlushNotInterleaved ==
  selPc = "flush" =>
    /\ IsPrefix(transcriptionBuffer, transcriptionBuffer')
    /\ providerSeqCounters' = providerSeqCounters
    /\ lastTick'.at = lastTick.at
    /\ outLog' # outLog =>
         outLog' = Append(outLog, [Result |-> Head(flush.rest).Result,
                                   kind |-> "flush"])

\* C31: at a handover the flushed entries of the new provider are enqueued in
\* increasing seq_num order, after every live forward of the old provider and
\* before every result of the new provider taken in after the handover; no
\* intake and no other scoring tick is interleaved with the flush
C31_FlushOrderedAndUninterrupted ==
  []FlushIsOneBlock /\ [][FlushNotInterleaved]_vars

\* a handover flushed entries after a live forward of the old provider, and a
\* later result of the new provider was forwarded live after them
C31_Witness ==
  /\ HandoverDone /\ Len(lastHandover.sent) >= 1
  /\ \E i \in 1..Len(outLog) :
       /\ outLog[i].kind = "live"
       /\ outLog[i].Result.ProviderName = lastHandover.new
       /\ outLog[i].Result.n > MaxN(lastHandover.newResults)
  /\ \E i \in 1..Len(outLog) :
       outLog[i].kind = "live" /\ outLog[i].Result.ProviderName = lastHandover.old
\* the frames taken from audioInput for which the SendAudio call on the
\* session of p has not returned
HeldOutside(p) ==
  {f \in 1..framesSent :
     /\ \A i \in 1..Len(audioInput) : audioInput[i] # f
     /\ \A i \in 1..Len(sessCalls[p]) : sessCalls[p][i].frame # f}

\* at most one frame per session is outside audioInput with its SendAudio
\* call not returned: the frame audioDistributor is waiting on
AtMostOneFrameHeld ==
  \A p \in Providers :
    /\ Cardinality(HeldOutside(p)) <= 1
    /\ HeldOutside(p) # {} => distPc = "wait" /\ HeldOutside(p) = {distFrame}

\* a frame is taken from audioInput only when no SendAudio call is
\* outstanding on any session, and while a call is outstanding on one
\* session no session is called with another frame
DequeueAfterAllReturned ==
  /\ (\E i \in 1..Len(audioInput) : audioInput[i] \notin
         {audioInput'[j] : j \in 1..Len(audioInput')})
       => \A p \in Providers : HeldOutside(p) = {}
  /\ \A p \in Providers :
       (HeldOutside(p) # {} /\ HeldOutside(p)' = HeldOutside(p))
         => /\ IsPrefix(audioInput, audioInput')
            /\ distFrame' = distFrame
            /\ \A q \in Providers :
                 \A i \in (Len(sessCalls[q]) + 1)..Len(sessCalls'[q]) :
                   sessCalls'[q][i].frame = distFrame

\* C32: audioDistributor dequeues frame k+1 only after the SendAudio call for
\* frame k has returned on every session; at most one frame per session is
\* held outside audioInput, and a session that does not return from SendAudio
\* stops the distribution to every session
C32_OneFrameAtATime ==
  []AtMostOneFrameHeld /\ [][DequeueAfterAllReturned]_vars

\* the call for frame 1 has returned on B and not on A, frame 2 waits in
\* audioInput, where it stays until the call on A returns
C32_Witness ==
  /\ HeldOutside("A") = {1} /\ Frames("B") = <<1>>
  /\ audioInput = <<2>> /\ framesSent = 2
\* the results of p that are in transcriptionBuffer
Buffered(p) ==
  {i \in 1..Len(transcriptionBuffer) : transcriptionBuffer[i].ProviderName = p}

\* a collector that leaves its send for good leaves transcriptionBuffer as it
\* is: the result it held is dropped
HeldResultDropped ==
  \A p \in Providers :
    (colPc[p] = "send" /\ colPc'[p] = "done")
      => /\ ctxDone
         /\ transcriptionBuffer' = transcriptionBuffer
         /\ colHeld'[p] = NoResult

\* C33: a collector that holds a result while transcriptionBuffer is full
\* exits once ps.ctx is cancelled, dropping the result, and Close, waiting
\* with transcriptionBuffer full, returns
C33_FullBufferDoesNotBlockClose ==
  /\ \A p \in Providers :
       (colPc[p] = "send" /\ Len(transcriptionBuffer) = BufCap /\ ctxDone)
         ~> (colPc[p] = "done")
  /\ (closePc = "wait" /\ Len(transcriptionBuffer) = BufCap
        /\ \E p \in Providers : colPc[p] = "send")
       ~> (closePc = "returned")
  /\ [][HeldResultDropped]_vars

\* Close has returned with transcriptionBuffer full, and a collector has
\* exited with a result that was never enqueued
C33_Witness ==
  /\ closePc = "returned" /\ Len(transcriptionBuffer) = BufCap
  /\ \E p \in Providers :
       /\ colPc[p] = "done"
       /\ Len(seqLog[p]) + Cardinality(Buffered(p)) < produced[p]
\* once Session.Close was called on the session of p, its collector does not
\* go back to session.ReceiveTranscription()
NoReceiveAfterSessionClose ==
  \A p \in Providers :
    sessCloseCalls[p] > 0 => ~(colPc[p] = "send" /\ colPc'[p] = "recv")

\* once Session.Close was called on the session of p, audioDistributor starts
\* no delivery goroutine for it
NoSendAfterSessionClose ==
  \A p \in Providers :
    sessCloseCalls[p] > 0 => ~(distPc = "range" /\ distPc' = "wait")

\* C34 as claimed: the selector calls neither SendAudio nor
\* ReceiveTranscription on a session after it has called Close on it
C34_NoSessionCallAfterClose ==
  [][NoReceiveAfterSessionClose /\ NoSendAfterSessionClose]_vars
\* the step is a call of the callback cb of the CallbackHandler
Callback(cb) == dg'.callbacks > dg.callbacks /\ dg'.lastCallback = cb

\* C35 as claimed: with resultChannel full, Message returns, the channel stays
\* as it is and the new result is dropped; with an error queued in
\* errorChannel, Error returns and the second error is dropped
C35_FullQueueDrops ==
  [][/\ (Callback("Message") /\ Len(dg.resultChannel) = DgCap)
          => ~dg'.panicked /\ dg'.resultChannel = dg.resultChannel
     /\ (Callback("Error") /\ dg.errorChannel # <<>>)
          => ~dg'.panicked /\ dg'.errorChannel = dg.errorChannel]_vars
\* the entries of history h stand in strictly increasing SeqNum order
Increasing(h) == \A i \in 1..(Len(h) - 1) : h[i].SeqNum < h[i + 1].SeqNum

\* the last entry of history h carries the highest SeqNum of h
LastIsHighest(h) == \A i \in 1..Len(h) : h[i].SeqNum <= Last(h).SeqNum

\* C36: every provider's history is in strictly increasing seq_num order,
\* also after clearOldResults, so its last entry carries its highest seq_num:
\* the value sendMissedMessages takes as lastOldSeq
C36_HistoriesIncreasing ==
  /\ \A p \in Providers :
       Increasing(providerResults[p]) /\ LastIsHighest(providerResults[p])
  /\ \A fl \in {flush, lastHandover} :
       Increasing(fl.oldResults) /\ LastIsHighest(fl.oldResults)
         /\ Increasing(fl.newResults)

\* clearOldResults has removed the first entry of a history and left a later
\* one, and a handover has read its lastOldSeq from a history of two entries
C36_Witness ==
  /\ \E p \in Providers :
       /\ providerResults[p] # <<>>
       /\ providerResults[p][1].SeqNum > 1
  /\ HandoverDone /\ Len(lastHandover.oldResults) >= 2
\* the step takes the first result out of transcriptionBuffer
TakesResult ==
  transcriptionBuffer # <<>> /\ transcriptionBuffer' = Tail(transcriptionBuffer)

\* C37: the intake of a final result of a provider that is not the active one
\* leaves transcriptionOutput and the active provider as they are and
\* advances only that provider's counter and history; the intake of an
\* interim result leaves counters, histories, active provider and
\* transcriptionOutput as they are
C37_IntakeFrame ==
  [][TakesResult =>
       LET r == Head(transcriptionBuffer)
           p == r.ProviderName
       IN /\ ~r.IsFinal =>
               /\ UNCHANGED <<providerSeqCounters, providerResults, activeProvider,
                              transcriptionOutput, outLog, selPc, selHeld>>
          /\ (r.IsFinal /\ p # activeProvider) =>
               /\ UNCHANGED <<activeProvider, transcriptionOutput, outLog,
                              selPc, selHeld>>
               /\ providerSeqCounters' =
                    [providerSeqCounters EXCEPT ![p] = @ + 1]
               /\ providerResults' =
                    [providerResults EXCEPT ![p] =
                       Append(@, [Result |-> r,
                                  SeqNum |-> providerSeqCounters[p] + 1])]]_vars

\* the selector has taken in an interim result of the active provider and a
\* final result of the other provider, and has forwarded nothing
C37_Witness ==
  /\ produced[activeProvider] = 1 /\ colPc[activeProvider] = "recv"
  /\ providerResults[activeProvider] = <<>>
  /\ \E p \in Providers \ {activeProvider} : Len(providerResults[p]) = 1
  /\ transcriptionBuffer = <<>> /\ outLog = <<>> /\ selPc = "select"
\* C38: sessions report their results under the names of their providers;
\* then the active provider is always the name of a provider of
\* providersList whose session was built
C38_ActiveWasBuilt ==
  \E i \in Built : providersList[i].Name = activeProvider

\* the session of the first provider was not built; the second provider has
\* produced every result and a scoring tick has kept it active
C38_Witness ==
  /\ ~providersList[1].sessionOk
  /\ TickDone /\ lastTick.results[activeProvider] # <<>>
  /\ produced[activeProvider] = BuiltResults
\* the tasks that send on transcriptionOutput and on transcriptionBuffer have
\* exited when these are closed, and nothing has panicked
ClosedQueuesHaveNoSender ==
  /\ ~panicked
  /\ (outClosed \/ bufClosed) =>
       /\ selPc = "done"
       /\ \A p \in Providers : colPc[p] = "done"
       /\ closePc = "returned"
  /\ audioClosed => closeCalls = 1

\* a is what is left of queue b when entries were taken from its front
IsSuffix(a, b) ==
  Len(a) <= Len(b) /\ a = SubSeq(b, Len(b) - Len(a) + 1, Len(b))

\* nothing is enqueued on a closed queue, no closed queue is reopened or
\* closed again, and no SendAudio call enqueues once audioInput is closed
NoSendOnClosed ==
  /\ audioClosed => (audioClosed' /\ framesSent' = framesSent
                       /\ IsSuffix(audioInput', audioInput))
  /\ bufClosed => (bufClosed'
                     /\ IsSuffix(transcriptionBuffer', transcriptionBuffer))
  /\ outClosed => (outClosed' /\ outLog' = outLog)

\* C39: with Close called once and no SendAudio call in progress or started
\* afterwards, nothing sends on a closed queue and no queue is closed twice:
\* transcriptionOutput and transcriptionBuffer are closed only after
\* heuristicSelector and every collector have returned, audioInput only
\* after the last SendAudio call
C39_QueuesClosedAfterTheirSenders ==
  []ClosedQueuesHaveNoSender /\ [][NoSendOnClosed]_vars

\* Close has returned and closed the three queues of a connection that took
\* a frame, forwarded a result and whose collectors dropped a result on exit
C39_Witness ==
  /\ closePc = "returned" /\ audioClosed /\ bufClosed /\ outClosed
  /\ framesSent = MaxFrames /\ outLog # <<>>
  /\ \E p \in Providers : Len(seqLog[p]) + Cardinality(Buffered(p)) < produced[p]
Min(a, b) == IF a <= b THEN a ELSE b

\* C40: after n Add calls on a MessageBuffer created with capacity c (1 when
\* the capacity asked for is 0 or negative), size is min(n, c), head is
\* n mod c, the i-th message added, for each of the last min(n, c), is in
\* slot (i-1) mod c, and no slot holds anything else
C40_CircularBuffer ==
  mb # NoBuffer =>
    LET n == Len(mbCalls.added)
        c == IF mbCalls.requested <= 0 THEN 1 ELSE mbCalls.requested
        kept == (n - Min(n, c) + 1)..n
    IN /\ mb.capacity = c /\ DOMAIN mb.messages = 0..(c - 1)
       /\ mb.size = Min(n, c)
       /\ mb.head = n % c
       /\ \A i \in kept : mb.messages[(i - 1) % c] = mbCalls.added[i]
       /\ \A k \in 0..(c - 1) :
            (\A i \in kept : (i - 1) % c # k) => mb.messages[k] = ""

\* the buffer of TestCircularOverwrite: capacity 3, five messages added, the
\* first two overwritten by the fourth and fifth
C40_Witness ==
  /\ mbCalls.requested = 3 /\ mbCalls.added = <<"a", "b", "a", "b", "b">>
  /\ mb.messages = [k \in 0..2 |-> IF k = 2 THEN "a" ELSE "b"]
  /\ mb.head = 2 /\ mb.size = 3
====
